---- MODULE Spec2Model ----
(***************************************************************************)
(* Credential encryption of the Playwright test framework                  *)
(* (utils/encryption.ts, utils/constants.ts, utils/helpers.ts,             *)
(* scripts/encrypt-password.ts), its cucumber hooks and steps              *)
(* (features/client-entity-management.feature, features/steps) and its     *)
(* token counters (scripts/token-counter.ts).                              *)
(*                                                                         *)
(* Strings are sequences of UTF-16 code units, as JavaScript strings are;  *)
(* buffers are sequences of bytes 0..255.  The Node.js library calls the   *)
(* code makes (Buffer base64/utf8 conversion, pbkdf2Sync, the aes-256-gcm  *)
(* cipher) are modelled by what they do to the bytes.  The key-stretching  *)
(* function and the cipher are idealised: small arithmetic functions with  *)
(* the algebraic properties of the real ones (deterministic, keyed,        *)
(* counter-mode XOR, a tag that changes whenever one byte of key, nonce,   *)
(* associated data or ciphertext changes).                                 *)
(***************************************************************************)
EXTENDS Integers, Sequences, FiniteSets, TLC

VARIABLES
    password,      \* the plaintext handed to encryptPassword in this run
    processEnv,    \* process.env.PLAYWRIGHT_ENCRYPTION_KEY
    enc,           \* the latest encryptPassword call: arguments, locals, result
    dec,           \* the latest decryptPassword call since: arguments, locals, outcome
    prev,          \* the encryptPassword call before the latest, where a run keeps it
    cred,          \* CREDENTIALS.OPERATOR as loaded
    accesses,      \* the CREDENTIALS.OPERATOR.getPassword() calls so far, oldest first
    form,          \* what the latest LoginHelper.login call filled into the login form
    cli,           \* the latest run of the encrypt-password script
    inflight,      \* the invocations in progress, where a run interleaves them
    run,           \* the cucumber run: hooks' module variables, browser, contexts, progress
    analysis       \* the token analysis in progress: files to read, statistics so far

vars == <<password, processEnv, enc, dec, prev, cred, accesses, form, cli, inflight,
          run, analysis>>

\* the state of the test run and of the token analysis
tooling == <<run, analysis>>

\* the state of the consumers of the encryption module
consumers == <<cred, accesses, form, cli>>

----------------------------------------------------------------------------
(* Bounds of the model *)

MaxLen == 2        \* longest plaintext, in UTF-16 code units

----------------------------------------------------------------------------
(* JavaScript values *)

\* undefined: an omitted argument, an unset environment variable
Undefined == << -1 >>

\* a || b : a unless a is falsy (undefined or the empty string)
\* variant: a ?? b, which passes over undefined only
OrElse_nullish(a, b) == IF a # Undefined THEN a ELSE b
OrElse(a, b) == IF a # Undefined /\ a # <<>> THEN a ELSE b

Min(a, b) == IF a < b THEN a ELSE b

\* a function on 1..n as a sequence value, tabulated once
AsSeq(f) == f \o <<>>

\* the sum of the elements lo..hi of a sequence of numbers
RECURSIVE SumOver(_, _, _)
SumOver(b, lo, hi) ==
    IF lo > hi THEN 0
    ELSE IF lo = hi THEN b[lo]
    ELSE SumOver(b, lo, (lo + hi) \div 2) + SumOver(b, (lo + hi) \div 2 + 1, hi)

\* buf.subarray(start, end): bytes start..end-1 (0-based), clamped to the buffer
subarray(buf, start, end) == SubSeq(buf, Min(start, Len(buf)) + 1, Min(end, Len(buf)))

RECURSIVE BitXor(_, _, _)
BitXor(a, b, n) ==
    IF n = 0 THEN 0
    ELSE ((a + b) % 2) + 2 * BitXor(a \div 2, b \div 2, n - 1)

----------------------------------------------------------------------------
(* Buffer.from(string, 'utf8') / cipher.update(string, 'utf8'): UTF-8      *)
(* encoding of a JavaScript string.  An unpaired surrogate is encoded as   *)
(* U+FFFD (EF BF BD).                                                      *)

IsHighSurrogate(c) == c >= 55296 /\ c <= 56319
IsLowSurrogate(c) == c >= 56320 /\ c <= 57343

\* the bytes the code unit at index i of s contributes
Utf8Unit(s, i) ==
    LET c == s[i] IN
    IF c < 128 THEN <<c>>
    ELSE IF c < 2048 THEN <<192 + (c \div 64), 128 + (c % 64)>>
    ELSE IF IsHighSurrogate(c) /\ i < Len(s) /\ IsLowSurrogate(s[i + 1]) THEN
        LET cp == 65536 + (c - 55296) * 1024 + (s[i + 1] - 56320) IN
        <<240 + (cp \div 262144), 128 + ((cp \div 4096) % 64),
          128 + ((cp \div 64) % 64), 128 + (cp % 64)>>
    ELSE IF IsLowSurrogate(c) /\ i > 1 /\ IsHighSurrogate(s[i - 1]) THEN <<>>
    ELSE IF IsHighSurrogate(c) \/ IsLowSurrogate(c) THEN <<239, 191, 189>>
    ELSE <<224 + (c \div 4096), 128 + ((c \div 64) % 64), 128 + (c % 64)>>

RECURSIVE Utf8Range(_, _, _)
Utf8Range(s, lo, hi) ==
    IF lo > hi THEN <<>>
    ELSE IF lo = hi THEN Utf8Unit(s, lo)
    ELSE Utf8Range(s, lo, (lo + hi) \div 2) \o Utf8Range(s, (lo + hi) \div 2 + 1, hi)

Utf8Encode(s) == Utf8Range(s, 1, Len(s))

(* decipher.update(buf, undefined, 'utf8') + decipher.final('utf8'): UTF-8 *)
(* decoding; a byte that starts no well-formed sequence decodes to U+FFFD. *)

IsContinuation(b) == b >= 128 /\ b < 192

RECURSIVE Utf8Decode(_)
Utf8Decode(b) ==
    IF b = <<>> THEN <<>>
    ELSE LET c == b[1]
             n == Len(b)
         IN
        IF c < 128 THEN <<c>> \o Utf8Decode(SubSeq(b, 2, n))
        ELSE IF c >= 192 /\ c < 224 /\ n >= 2 /\ IsContinuation(b[2]) THEN
            <<(c - 192) * 64 + (b[2] - 128)>> \o Utf8Decode(SubSeq(b, 3, n))
        ELSE IF c >= 224 /\ c < 240 /\ n >= 3
                /\ IsContinuation(b[2]) /\ IsContinuation(b[3]) THEN
            <<(c - 224) * 4096 + (b[2] - 128) * 64 + (b[3] - 128)>>
                \o Utf8Decode(SubSeq(b, 4, n))
        ELSE IF c >= 240 /\ c < 248 /\ n >= 4 /\ IsContinuation(b[2])
                /\ IsContinuation(b[3]) /\ IsContinuation(b[4]) THEN
            LET v == (c - 240) * 262144 + (b[2] - 128) * 4096
                     + (b[3] - 128) * 64 + (b[4] - 128) - 65536
            IN <<55296 + (v \div 1024), 56320 + (v % 1024)>>
                \o Utf8Decode(SubSeq(b, 5, n))
        ELSE <<65533>> \o Utf8Decode(SubSeq(b, 2, n))

----------------------------------------------------------------------------
(* buf.toString('base64'): standard alphabet, '=' padding *)

Base64Char(v) ==
    IF v < 26 THEN 65 + v
    ELSE IF v < 52 THEN 97 + (v - 26)
    ELSE IF v < 62 THEN 48 + (v - 52)
    ELSE IF v = 62 THEN 43
    ELSE 47

RECURSIVE Flatten(_, _, _)
Flatten(groups, lo, hi) ==
    IF lo > hi THEN <<>>
    ELSE IF lo = hi THEN groups[lo]
    ELSE Flatten(groups, lo, (lo + hi) \div 2)
             \o Flatten(groups, (lo + hi) \div 2 + 1, hi)

\* every 3 bytes give 4 characters; a last group of 1 or 2 bytes is padded
toBase64(buf) ==
    LET n == Len(buf)
        groups == AsSeq([g \in 1..((n + 2) \div 3) |->
            LET b0 == buf[3 * g - 2]
                b1 == IF 3 * g - 1 <= n THEN buf[3 * g - 1] ELSE 0
                b2 == IF 3 * g <= n THEN buf[3 * g] ELSE 0
            IN <<Base64Char(b0 \div 4),
                 Base64Char((b0 % 4) * 16 + (b1 \div 16)),
                 IF 3 * g - 1 > n THEN 61
                 ELSE Base64Char((b1 % 16) * 4 + (b2 \div 64)),
                 IF 3 * g > n THEN 61 ELSE Base64Char(b2 % 64)>>])
    IN Flatten(groups, 1, Len(groups))

(* Buffer.from(string, 'base64'): the lenient decoder.  It accepts the     *)
(* standard and the URL-safe alphabet, skips every other character         *)
(* (whitespace included), stops at the first '=' and never throws.         *)

unbase64(c) ==
    IF c >= 65 /\ c <= 90 THEN c - 65
    ELSE IF c >= 97 /\ c <= 122 THEN c - 71
    ELSE IF c >= 48 /\ c <= 57 THEN c + 4
    ELSE IF c = 43 \/ c = 45 THEN 62
    ELSE IF c = 47 \/ c = 95 THEN 63
    ELSE 64

\* the 6-bit values of the characters before the first '=', packed into bytes
fromBase64(s) ==
    LET pads == {i \in 1..Len(s) : s[i] = 61}
        stop == IF pads = {} THEN Len(s)
                ELSE (CHOOSE i \in pads : \A j \in pads : i <= j) - 1
        sx == SelectSeq(SubSeq(s, 1, stop), LAMBDA c : unbase64(c) < 64)
        v == AsSeq([i \in 1..Len(sx) |-> unbase64(sx[i])])
    IN AsSeq([i \in 1..((Len(sx) * 6) \div 8) |->
          LET q == ((i - 1) * 8) \div 6 + 1
              r == ((i - 1) * 8) % 6
          IN IF r = 0 THEN v[q] * 4 + (v[q + 1] \div 16)
             ELSE IF r = 2 THEN (v[q] % 16) * 16 + (v[q + 1] \div 4)
             ELSE (v[q] % 4) * 64 + v[q + 1]])

----------------------------------------------------------------------------
(* Sums with odd weights, modulo 2^16: changing one byte of b changes the *)
(* sum, because an odd weight times a byte difference is never 0 mod 2^16. *)
WeightedSum(b) ==
    SumOver(AsSeq([i \in 1..Len(b) |-> b[i] * (2 * i + 1)]), 1, Len(b)) % 65536

(* crypto.pbkdf2Sync(password, salt, iterations, keylen, 'sha256'),         *)
(* idealised: a deterministic digest of (iterations, salt, password)       *)
(* stretched to keylen bytes; the first two bytes carry the digest.        *)
pbkdf2Sync(pw, saltStr, iterations, keylen) ==
    LET pwBytes == Utf8Encode(pw)
        saltBytes == Utf8Encode(saltStr)
        h == (iterations + 7 * WeightedSum(saltBytes) + 11 * Len(saltBytes)
              + 3 * WeightedSum(pwBytes) + 5 * Len(pwBytes)) % 65536
    IN AsSeq([i \in 1..keylen |->
          IF i = 1 THEN h % 256
          ELSE IF i = 2 THEN h \div 256
          ELSE (h * (2 * i + 1) + i) % 256])

(* crypto.randomBytes(size): the values the random source may return.      *)
(* Any value is possible on any call; the model draws from a few samples.  *)
MaxNonces == 2

randomBytes(size) ==
    {AsSeq([i \in 1..size |-> (i * (2 * s + 1) + 40 * s) % 256]) : s \in 1..MaxNonces}

(* The aes-256-gcm cipher, idealised.  KeyNum and IvNum stand for the      *)
(* block-cipher state a key and a nonce select; the keystream is XORed     *)
(* onto the data (counter mode, same length out as in); the tag is an      *)
(* odd-weighted sum over key, nonce, associated data and ciphertext, so    *)
(* that changing one byte of any of them changes the tag, as GHASH does.   *)

KeyNum(key) == key[1] + 256 * key[2]
IvNum(iv) == (WeightedSum(iv) + 17 * Len(iv)) % 65536

\* variant: a block mode, the data padded to whole 16-byte blocks
GcmCrypt_padded(key, iv, data) ==
    LET k == KeyNum(key) + 3 * IvNum(iv)
        n == 16 * (Len(data) \div 16 + 1)
    IN AsSeq([i \in 1..n |->
          BitXor(IF i <= Len(data) THEN data[i] ELSE n - Len(data),
                 (k * (2 * i + 1) + i) % 256, 8)])
\* cipher.update / decipher.update: counter-mode XOR with the keystream
GcmCrypt(key, iv, data) ==
    LET k == KeyNum(key) + 3 * IvNum(iv)
    IN AsSeq([i \in 1..Len(data) |-> BitXor(data[i], (k * (2 * i + 1) + i) % 256, 8)])

\* the 16-byte authentication tag over (key, iv, aad, ciphertext)
GcmTag(key, iv, aad, ct) ==
    LET t == (3 * KeyNum(key) + 5 * IvNum(iv)
              + 7 * WeightedSum(aad) + 13 * Len(aad)
              + 9 * WeightedSum(ct) + 11 * Len(ct)) % 65536
    IN AsSeq([i \in 1..16 |->
          IF i = 1 THEN t % 256
          ELSE IF i = 2 THEN t \div 256
          ELSE (t * (2 * i + 1) + i) % 256])

\* cipher.getAuthTag(): the full-length tag
getAuthTag(key, iv, aad, ct) == GcmTag(key, iv, aad, ct)

\* decipher.setAuthTag(tag): the tag lengths GCM accepts when createDecipheriv
\* was given no authTagLength
ValidGcmTagLengths == {4, 8, 12, 13, 14, 15, 16}

\* decipher.final(): the tag set by setAuthTag against the tag computed,
\* compared over the length of the tag that was set
TagVerifies(key, iv, aad, ct, authTag) ==
    authTag = SubSeq(GcmTag(key, iv, aad, ct), 1, Len(authTag))

\* cipher.update(data, 'utf8', 'base64') + cipher.final('base64'): the output
\* is base64-encoded in whole 3-byte groups by update, the rest by final
Base64Chunks(bytes) ==
    LET cut == 3 * (Len(bytes) \div 3)
    IN toBase64(SubSeq(bytes, 1, cut)) \o toBase64(SubSeq(bytes, cut + 1, Len(bytes)))

\* what a call gives its caller: a returned value or a thrown error
Return(v) == [threw |-> FALSE, error |-> "", value |-> v]
Throw(e) == [threw |-> TRUE, error |-> e, value |-> Undefined]

\* the errors the crypto library throws
ERR_CRYPTO_INVALID_IV == "ERR_CRYPTO_INVALID_IV"
ERR_CRYPTO_INVALID_AUTH_TAG == "ERR_CRYPTO_INVALID_AUTH_TAG"
ERR_UNABLE_TO_AUTHENTICATE == "Unsupported state or unable to authenticate data"

----------------------------------------------------------------------------
(* utils/encryption.ts *)

\* 'playwright-test-key-change-in-production'
DEFAULT_KEY ==
    <<112, 108, 97, 121, 119, 114, 105, 103, 104, 116, 45, 116, 101, 115, 116,
      45, 107, 101, 121, 45, 99, 104, 97, 110, 103, 101, 45, 105, 110, 45, 112,
      114, 111, 100, 117, 99, 116, 105, 111, 110>>

\* 'playwright-salt'
salt == <<112, 108, 97, 121, 119, 114, 105, 103, 104, 116, 45, 115, 97, 108, 116>>

\* variant: salted with the nonce of the latest encryptPassword call
deriveKey_freshSalt(pw) == pbkdf2Sync(pw, enc.iv, 10000, 32)
\* variant: the key derived from the built-in passphrase whatever is passed
deriveKey_fixed(pw) == pbkdf2Sync(DEFAULT_KEY, salt, 10000, 32)
deriveKey(pw) == pbkdf2Sync(pw, salt, 10000, 32)

\* encryptionKey || process.env.PLAYWRIGHT_ENCRYPTION_KEY || DEFAULT_KEY,
\* as encryptPassword and as decryptPassword evaluate it
\* variant: no built-in passphrase to fall back to
EncryptKey_noDefault(encryptionKey, env) == OrElse(encryptionKey, env)
\* variant: the environment value preferred to the argument
EncryptKey_envFirst(encryptionKey, env) == OrElse(OrElse(env, encryptionKey), DEFAULT_KEY)
EncryptKey(encryptionKey, env) == OrElse(OrElse(encryptionKey, env), DEFAULT_KEY)
\* variant: the passphrase the earlier encryptPassword call resolved, kept
DecryptKey_cached(encryptionKey, env) ==
    OrElse(encryptionKey, IF enc.called THEN enc.key ELSE OrElse(env, DEFAULT_KEY))
\* variant: the environment value preferred to the argument
DecryptKey_envFirst(encryptionKey, env) == OrElse(OrElse(env, encryptionKey), DEFAULT_KEY)
DecryptKey(encryptionKey, env) == OrElse(OrElse(encryptionKey, env), DEFAULT_KEY)

\* Buffer.from('playwright-test', 'utf8') given to cipher.setAAD
cipherAAD ==
    Utf8Encode(<<112, 108, 97, 121, 119, 114, 105, 103, 104, 116, 45, 116, 101, 115, 116>>)

\* variant: no associated data set on the decipher
decipherAAD_none == <<>>
\* Buffer.from('playwright-test', 'utf8') given to decipher.setAAD
decipherAAD ==
    Utf8Encode(<<112, 108, 97, 121, 119, 114, 105, 103, 104, 116, 45, 116, 101, 115, 116>>)

\* variant: the tag written before the nonce
Combine_tagFirst(iv, authTag, ciphertext) == authTag \o iv \o ciphertext
\* Buffer.concat([iv, authTag, Buffer.from(encrypted, 'base64')])
Combine(iv, authTag, ciphertext) == iv \o authTag \o ciphertext

\* variant: the nonce of the call before used again
NewIv_reused(random) == IF enc.called THEN enc.iv ELSE random
\* variant: the same nonce for every call
NewIv_constant(random) == AsSeq([i \in 1..16 |-> 0])
\* const iv = crypto.randomBytes(16), random being what randomBytes returned
NewIv(random) == random

\* encryptPassword(password, encryptionKey) under environment env, with
\* random the value crypto.randomBytes(16) returns: the arguments, the locals
\* and the result of the call
encryptPassword(pw, encryptionKey, env, random) ==
    LET key == EncryptKey(encryptionKey, env)
        iv == NewIv(random)
        derivedKey == deriveKey(key)
        encrypted == Base64Chunks(GcmCrypt(derivedKey, iv, Utf8Encode(pw)))
        authTag == getAuthTag(derivedKey, iv, cipherAAD, fromBase64(encrypted))
        combined == Combine(iv, authTag, fromBase64(encrypted))
    IN [called |-> TRUE, password |-> pw, encryptionKey |-> encryptionKey,
        env |-> env, key |-> key, derivedKey |-> derivedKey, random |-> random,
        iv |-> iv, authTag |-> authTag, encrypted |-> encrypted,
        combined |-> combined, result |-> toBase64(combined)]

\* combined.subarray(0, 16), combined.subarray(16, 32), combined.subarray(32)
ExtractIv(combined) == subarray(combined, 0, 16)
\* variant: a twelve-byte tag read
ExtractAuthTag_short(combined) == subarray(combined, 16, 28)
ExtractAuthTag(combined) == subarray(combined, 16, 32)
\* variant: the ciphertext read from one byte too far
ExtractEncrypted_off(combined) == subarray(combined, 33, Len(combined))
ExtractEncrypted(combined) == subarray(combined, 32, Len(combined))

\* variant: the plaintext released without the tag being verified
Decipher_unverified(derivedKey, iv, authTag, encrypted) ==
    IF Len(iv) = 0 THEN Throw(ERR_CRYPTO_INVALID_IV)
    ELSE IF Len(authTag) \notin ValidGcmTagLengths
        THEN Throw(ERR_CRYPTO_INVALID_AUTH_TAG)
    ELSE Return(Utf8Decode(GcmCrypt(derivedKey, iv, encrypted)))

\* createDecipheriv, setAAD, setAuthTag, update, final: the outcome
Decipher(derivedKey, iv, authTag, encrypted) ==
    IF Len(iv) = 0 THEN Throw(ERR_CRYPTO_INVALID_IV)
    ELSE IF Len(authTag) \notin ValidGcmTagLengths
        THEN Throw(ERR_CRYPTO_INVALID_AUTH_TAG)
    ELSE IF ~TagVerifies(derivedKey, iv, decipherAAD, encrypted, authTag)
        THEN Throw(ERR_UNABLE_TO_AUTHENTICATE)
    ELSE Return(Utf8Decode(GcmCrypt(derivedKey, iv, encrypted)))

\* decryptPassword(encryptedPassword, encryptionKey) under environment env:
\* the arguments, the locals and the outcome of the call
decryptPassword(encryptedPassword, encryptionKey, env) ==
    LET key == DecryptKey(encryptionKey, env)
        derivedKey == deriveKey(key)
        combined == fromBase64(encryptedPassword)
        iv == ExtractIv(combined)
        authTag == ExtractAuthTag(combined)
        encrypted == ExtractEncrypted(combined)
    IN [called |-> TRUE, encryptedPassword |-> encryptedPassword,
        encryptionKey |-> encryptionKey, env |-> env, key |-> key,
        derivedKey |-> derivedKey, combined |-> combined, iv |-> iv, authTag |-> authTag,
        encrypted |-> encrypted,
        outcome |-> Decipher(derivedKey, iv, authTag, encrypted)]

----------------------------------------------------------------------------
(* The inputs the model draws *)

\* 'test-key', 'wrong-key'
TestKey == <<116, 101, 115, 116, 45, 107, 101, 121>>
WrongKey == <<119, 114, 111, 110, 103, 45, 107, 101, 121>>

\* the encryptionKey argument: omitted, empty, or a passphrase
ExplicitKeys == {Undefined, <<>>, TestKey, WrongKey}

\* the environment variable: unset, set to the empty string, set to a passphrase
EnvValues == {Undefined, <<>>, WrongKey}

\* plaintext code units: 'a', e-acute (2 bytes in UTF-8), the euro sign
\* (3 bytes), and the two surrogate halves of U+1F600 (4 bytes when paired)
PasswordChars == {97, 233, 8364, 55357, 56832}

Plaintexts == UNION {[1..n -> PasswordChars] : n \in 0..MaxLen}

\* a string with no unpaired surrogate (what UTF-8 text decodes to)
WellFormed(s) ==
    \A i \in 1..Len(s) :
        /\ IsHighSurrogate(s[i]) => (i < Len(s) /\ IsLowSurrogate(s[i + 1]))
        /\ IsLowSurrogate(s[i]) => (i > 1 /\ IsHighSurrogate(s[i - 1]))

\* the plaintexts of the runs that vary keys, environment and envelopes:
\* the empty password and a password with a multi-byte character
SamplePlaintexts == {<<>>, <<97, 233>>}

\* a stored envelope with the byte at offset pos-1 changed
FlipByte(envelope, pos) ==
    toBase64(AsSeq([fromBase64(envelope) EXCEPT ![pos] = (@ + 1) % 256]))

\* a stored envelope cut to its first n decoded bytes
Truncate(envelope, n) == toBase64(SubSeq(fromBase64(envelope), 1, n))

\* a stored envelope with a character outside the base64 alphabet ('!') in it
Smudge(envelope) == SubSeq(envelope, 1, 2) \o <<33>> \o SubSeq(envelope, 3, Len(envelope))

\* a stored envelope with its third character replaced by '!'
Blot(envelope) == SubSeq(envelope, 1, 2) \o <<33>> \o SubSeq(envelope, 4, Len(envelope))

\* decoded lengths an envelope is cut to: nothing left, no tag left, a tag of
\* a length GCM refuses, tags of lengths GCM accepts
CutLengths == {0, 12, 21, 28}

\* strings handed to decryptPassword that no encryption produced: '!!!!', ''
Junk == {<<33, 33, 33, 33>>, <<>>}

\* the variations of a stored envelope that decryptPassword is given: one
\* byte changed in the nonce (first, last), in the tag (first, last) or
\* anywhere in the ciphertext; a cut; a character outside the alphabet put
\* in or put in place of another
Variations(envelope) ==
    LET n == Len(fromBase64(envelope))
    IN {FlipByte(envelope, pos) : pos \in {1, 16, 17, 32} \cup 33..n}
       \cup {Truncate(envelope, k) : k \in CutLengths}
       \cup {Smudge(envelope), Blot(envelope)}

----------------------------------------------------------------------------
(* State *)

NoEnc ==
    [called |-> FALSE, password |-> Undefined, encryptionKey |-> Undefined,
     env |-> Undefined, key |-> Undefined, derivedKey |-> <<>>, random |-> <<>>,
     iv |-> <<>>, authTag |-> <<>>, encrypted |-> <<>>, combined |-> <<>>,
     result |-> Undefined]

NoDec ==
    [called |-> FALSE, encryptedPassword |-> Undefined, encryptionKey |-> Undefined,
     env |-> Undefined, key |-> Undefined, derivedKey |-> <<>>, combined |-> <<>>,
     iv |-> <<>>, authTag |-> <<>>, encrypted |-> <<>>, outcome |-> Throw("")]

\* 'qa-op@hydrax.io'
OperatorEmail == <<113, 97, 45, 111, 112, 64, 104, 121, 100, 114, 97, 120, 46, 105, 111>>

\* the operator password the stored envelope was made from (12 characters, as
\* the 12 ciphertext bytes of the stored envelope)
OperatorPassword == <<104, 88, 97, 100, 109, 105, 110, 64, 50, 48, 49, 56>>

\* the envelope literal of constants.ts, as committed
StoredEnvelopeText ==
    <<50, 51, 85, 104, 110, 82, 100, 77, 99, 119, 117, 122, 73, 47, 115, 76, 72, 50,
      114, 65, 79, 107, 111, 108, 72, 114, 65, 67, 108, 114, 85, 110, 66, 54, 86, 66,
      80, 56, 47, 51, 57, 52, 117, 49, 120, 77, 106, 118, 88, 88, 67, 99, 114, 79, 104,
      119, 43, 76, 77, 61>>

\* the passphrases the stored envelope may have been sealed under: the
\* built-in one (no key configured then) or an environment key
SealingKeys == {Undefined, WrongKey}

\* the stored envelope under the idealised cipher: the operator password
\* sealed by encryptPassword with environment key sealedWith
StoredEnvelope(sealedWith) ==
    encryptPassword(OperatorPassword, Undefined, sealedWith,
                    CHOOSE r \in randomBytes(16) : TRUE).result

\* CREDENTIALS.OPERATOR: the fields of the object literal, and the envelope
\* literal the getPassword closure holds
CREDENTIALS(sealedWith) ==
    [email |-> OperatorEmail,
     encryptedPassword |-> StoredEnvelope(sealedWith),
     getPasswordEnvelope |-> StoredEnvelope(sealedWith)]

\* obj.name in JavaScript: undefined for a property the object does not have
Property(obj, name) == IF name \in DOMAIN obj THEN obj[name] ELSE Undefined

\* variant: a failed decryption caught and the empty password returned
getPassword_swallowing(credentials, env) ==
    LET d == decryptPassword(credentials.getPasswordEnvelope, Undefined, env)
    IN IF d.outcome.threw THEN [d EXCEPT !.outcome = Return(<<>>)] ELSE d
\* variant: the first decryption kept and handed out again
getPassword_memoized(credentials, env) ==
    IF accesses # <<>> THEN accesses[1]
    ELSE decryptPassword(credentials.getPasswordEnvelope, Undefined, env)
\* CREDENTIALS.OPERATOR.getPassword() under environment env: the
\* decryptPassword call it makes
getPassword(credentials, env) ==
    decryptPassword(credentials.getPasswordEnvelope, Undefined, env)

\* a parameter with a default value: the default when the argument is undefined
DefaultParam(arg, default) == IF arg = Undefined THEN default ELSE arg

\* LoginHelper.login(email, password) on a page where the login form is or is
\* not found: what it hands to emailField.fill and passwordField.fill
login(credentials, email, pw, formFound) ==
    LET emailParam == DefaultParam(email, Property(credentials, "email"))
        passwordParam == DefaultParam(pw, Property(credentials, "password"))
    IN [called |-> TRUE, emailArg |-> email, passwordArg |-> pw,
        filled |-> formFound,
        email |-> IF formFound THEN emailParam ELSE Undefined,
        password |-> IF formFound THEN passwordParam ELSE Undefined]

NoForm ==
    [called |-> FALSE, emailArg |-> Undefined, passwordArg |-> Undefined,
     filled |-> FALSE, email |-> Undefined, password |-> Undefined]

\* variant: the password sealed and verified under a key given explicitly
generateEncryptedPassword_keyed(plainPassword, env, random) ==
    LET Verified(encrypted) ==
            LET decrypted == decryptPassword(encrypted, TestKey, env).outcome
            IN IF decrypted.threw
               THEN [log |-> <<[original |-> plainPassword], [encrypted |-> encrypted]>>,
                     outcome |-> decrypted]
               ELSE [log |-> <<[original |-> plainPassword], [encrypted |-> encrypted],
                               [decrypted |-> decrypted.value],
                               [verification |-> plainPassword = decrypted.value]>>,
                     outcome |-> Return(encrypted)]
    IN CHOOSE g \in {Verified(e) :
                e \in {encryptPassword(plainPassword, TestKey, env, random).result}} : TRUE
\* generateEncryptedPassword(plainPassword) under environment env, random
\* being what crypto.randomBytes(16) returns: the lines it logs and its outcome
generateEncryptedPassword(plainPassword, env, random) ==
    LET \* the lines after const encrypted = encryptPassword(plainPassword)
        Verified(encrypted) ==
            LET decrypted == decryptPassword(encrypted, Undefined, env).outcome
            IN IF decrypted.threw
               THEN [log |-> <<[original |-> plainPassword], [encrypted |-> encrypted]>>,
                     outcome |-> decrypted]
               ELSE [log |-> <<[original |-> plainPassword], [encrypted |-> encrypted],
                               [decrypted |-> decrypted.value],
                               [verification |-> plainPassword = decrypted.value]>>,
                     outcome |-> Return(encrypted)]
    IN CHOOSE g \in {Verified(e) :
                e \in {encryptPassword(plainPassword, Undefined, env, random).result}} : TRUE

\* variant: only a missing argument refused
Falsy_undefinedOnly(v) == v = Undefined
\* !password in JavaScript: undefined and the empty string are falsy
Falsy(v) == v = Undefined \/ v = <<>>

\* the encrypt-password script run with process.argv[2] = arg: what it
\* writes to stderr, the lines generateEncryptedPassword logs, the envelope
\* it tells the user to copy, and the exit code
EncryptPasswordScript(arg, env, random) ==
    IF Falsy(arg)
    THEN [ran |-> TRUE, arg |-> arg, env |-> env, stderr |-> "Please provide a password to encrypt",
          log |-> <<>>, copy |-> Undefined, exitCode |-> 1]
    ELSE LET g == generateEncryptedPassword(arg, env, random)
         IN IF g.outcome.threw
            THEN [ran |-> TRUE, arg |-> arg, env |-> env, stderr |-> "Encryption failed",
                  log |-> g.log, copy |-> Undefined, exitCode |-> 1]
            ELSE [ran |-> TRUE, arg |-> arg, env |-> env, stderr |-> "",
                  log |-> g.log, copy |-> g.outcome.value, exitCode |-> 0]

NoCli ==
    [ran |-> FALSE, arg |-> Undefined, env |-> Undefined, stderr |-> "",
     log |-> <<>>, copy |-> Undefined, exitCode |-> 0]

\* the invocations a run interleaves
Invocations == {"a", "b"}

\* no invocation in progress
Idle ==
    [pc |-> "idle", op |-> "", encryptionKey |-> Undefined, key |-> Undefined,
     random |-> <<>>, finals |-> 0, outcome |-> Throw("")]

----------------------------------------------------------------------------
(* The cucumber hooks (features/client-entity-management.feature, lines    *)
(* 45-86) and the step definitions (features/steps).  Browser contexts are *)
(* numbered as they are created; a context has one page, which carries the *)
(* number of its context; 0 stands for undefined.                          *)

\* the steps of the three scenarios of the feature; the first step of each
\* is 'Given a user navigates to the application'
ScenarioSteps == <<15, 7, 8>>

\* the run before cucumber has called anything: the module variables of the
\* hooks (browser, context, page) and of the steps (the helpers) undefined
NotStarted ==
    [pc |-> "start", scenario |-> 0, step |-> 0, failed |-> FALSE,
     launches |-> 0, browser |-> FALSE, browserOpen |-> FALSE,
     created |-> 0, open |-> {},
     context |-> 0, page |-> 0,
     world |-> [page |-> 0, context |-> 0],
     helpers |-> 0,
     made |-> [n \in 1..Len(ScenarioSteps) |-> 0],
     uses |-> {}]

\* BeforeAll: browser = await chromium.launch({ headless })
BeforeAllHook(r) ==
    [r EXCEPT !.launches = @ + 1, !.browser = TRUE, !.browserOpen = TRUE]

\* Before, for a scenario with a fresh World: context = await
\* browser.newContext(); page = await context.newPage(); this.page = page;
\* this.context = context.  Either await may reject, and the hook stops there.
BeforeHook(r, contextMade, pageMade) ==
    LET fresh == [r EXCEPT !.world = [page |-> 0, context |-> 0]]
        id == r.created + 1
    IN IF ~contextMade THEN [fresh EXCEPT !.failed = TRUE]
       ELSE IF ~pageMade
            THEN [fresh EXCEPT !.created = id, !.open = @ \cup {id}, !.context = id,
                               !.made[r.scenario] = id, !.failed = TRUE]
       ELSE [fresh EXCEPT !.created = id, !.open = @ \cup {id}, !.context = id,
                          !.page = id, !.made[r.scenario] = id,
                          !.world = [page |-> id, context |-> id]]

\* variant: the helpers made once and kept for the scenarios that follow
BindHelpers_once(r) == IF r.helpers = 0 THEN r.world.page ELSE r.helpers
\* Given('a user navigates to the application'): const page = this.page;
\* loginHelper = new LoginHelper(page); ... entityHelper = new EntityHelper(page)
BindHelpers(r) == r.world.page

\* one use of a page by a step: the scenario, the page, and whether the
\* page's context was open
Use(r, p) == [scenario |-> r.scenario, page |-> p, live |-> p \in r.open]

\* the first step: the helpers bound to this.page, then page.goto(...)
GivenStep(r, passed) ==
    LET bound == [r EXCEPT !.helpers = BindHelpers(r)]
    IN [bound EXCEPT !.uses = @ \cup {Use(bound, r.world.page), Use(bound, bound.helpers)},
                     !.step = @ + 1, !.failed = ~passed]

\* a later step: it works through the helpers of the steps module
LaterStep(r, passed) ==
    [r EXCEPT !.uses = @ \cup {Use(r, r.helpers)}, !.step = @ + 1, !.failed = ~passed]

\* variant: the context left open when the scenario failed
AfterHook_passedOnly(r) ==
    IF r.context # 0 /\ ~r.failed THEN [r EXCEPT !.open = @ \ {r.context}] ELSE r
\* After: if (context) await context.close()
AfterHook(r) ==
    IF r.context # 0 THEN [r EXCEPT !.open = @ \ {r.context}] ELSE r

\* AfterAll: if (browser) await browser.close(), which closes its contexts
AfterAllHook(r) ==
    IF r.browser THEN [r EXCEPT !.browserOpen = FALSE, !.open = {}] ELSE r

----------------------------------------------------------------------------
(* The token counters: scripts/token-counter.ts and the development        *)
(* counter of scripts/encrypt-password.ts.  A path is its directories, the *)
(* stem of its file name, the mark the stem ends with and its extension;   *)
(* a text is its UTF-16 code units.                                        *)

Path(dir, stem, mark, ext) == [dir |-> dir, stem |-> stem, mark |-> mark, ext |-> ext]

\* the paths a project may hold, in the order a directory walk yields them
Paths ==
    << Path(<<"generated">>, "page", "", "ts"),
       Path(<<"node_modules">>, "lib", "", "js"),
       Path(<<"src">>, "api", ".generated", "ts"),
       Path(<<"src">>, "login", "-generated", "ts"),
       Path(<<"src">>, "login", "", "ts"),
       Path(<<"test-results">>, "trace", "", "json") >>

\* what each path holds when it is a file
Texts ==
    << <<97, 32, 97, 10, 97>>,
       <<97, 10, 10, 97, 32, 32, 97>>,
       <<>>,
       <<97, 97, 10, 97>>,
       AsSeq([k \in 1..40 |-> 97]),
       AsSeq([k \in 1..16 |-> IF k % 2 = 0 THEN 32 ELSE 97]) >>

\* a path is absent, a file that can be read, or one whose read fails
\* (a directory, a file without read permission)
FileSystems == [DOMAIN Paths -> {"absent", "file", "unreadable"}]

\* a glob pattern: anchored/dir/**/*mark.ext, every part optional
Pattern(anchored, dir, mark, ext) ==
    [anchored |-> anchored, dir |-> dir, mark |-> mark, ext |-> ext]

\* minimatch of a path against a pattern
Matches(pattern, path) ==
    /\ pattern.anchored # "" =>
           (Len(path.dir) >= 1 /\ path.dir[1] = pattern.anchored)
    /\ pattern.dir # "" => \E k \in DOMAIN path.dir : path.dir[k] = pattern.dir
    /\ pattern.mark # "" => path.mark = pattern.mark
    /\ pattern.ext # "" => path.ext = pattern.ext

inputPatterns ==
    << Pattern("", "", "", "ts"), Pattern("", "", "", "js"),
       Pattern("", "", "", "feature"), Pattern("", "", "", "md"),
       Pattern("", "", "", "json"), Pattern("", "", "", "yml"),
       Pattern("", "", "", "yaml") >>

excludePatterns ==
    << Pattern("node_modules", "", "", ""), Pattern(".git", "", "", ""),
       Pattern("dist", "", "", ""), Pattern("build", "", "", ""),
       Pattern("", "generated", "", ""), Pattern("", "output", "", "") >>

\* token-counter.ts
outputPatterns ==
    << Pattern("", "generated", "", "ts"), Pattern("", "generated", "", "js"),
       Pattern("", "output", "", "ts"), Pattern("", "output", "", "js"),
       Pattern("", "", "-generated", "ts"), Pattern("", "", "-generated", "js"),
       Pattern("", "playwright-report", "", ""), Pattern("", "test-results", "", "") >>

\* the development counter
developmentOutputPatterns ==
    << Pattern("", "generated", "", "ts"), Pattern("", "generated", "", "js"),
       Pattern("", "output", "", "ts"), Pattern("", "output", "", "js"),
       Pattern("", "", "-generated", "ts"), Pattern("", "", "-generated", "js"),
       Pattern("", "", ".generated", "ts"), Pattern("", "", ".generated", "js") >>

AnyMatches(patterns, path) == \E k \in DOMAIN patterns : Matches(patterns[k], path)

\* glob.sync(patterns, { cwd, ignore }): the present paths some pattern
\* matches and no ignore pattern matches, each once
globSync(patterns, ignore, fs) ==
    LET hit(f) == /\ fs[f] # "absent"
                  /\ AnyMatches(patterns, Paths[f])
                  /\ ~AnyMatches(ignore, Paths[f])
    IN  SelectSeq(AsSeq([f \in DOMAIN Paths |-> f]), hit)

\* fs.readFileSync(file, 'utf8')
readFileSync(f, fs) ==
    IF fs[f] = "file" THEN Return(Texts[f]) ELSE Throw("ENOENT")

IsSpace(c) == c \in {9, 10, 11, 12, 13, 32}

\* text.split(/\s+/).filter(word => word.length > 0).length
wordCount(text) ==
    Cardinality({k \in DOMAIN text :
                   /\ ~IsSpace(text[k])
                   /\ (k = 1 \/ IsSpace(text[k - 1]))})

\* text.split('\n').length
lineCount(text) == Cardinality({k \in DOMAIN text : text[k] = 10}) + 1

Max(a, b) == IF a > b THEN a ELSE b

estimateTokens(text) ==
    LET charBasedTokens == (Len(text) * 2) \div 7
        wordBasedTokens == (wordCount(text) * 13) \div 10
        lineBasedTokens == lineCount(text) * 8
    IN  Max(Max(charBasedTokens, wordBasedTokens), lineBasedTokens)

\* the entry a file that was read adds to the breakdown
Entry(f, content) ==
    [file |-> f, tokens |-> estimateTokens(content),
     chars |-> Len(content), lines |-> lineCount(content)]

\* variant: the file counted before it is read
analyzeFile_countedFirst(stats, f, fs) ==
    LET read == readFileSync(f, fs)
        e    == Entry(f, read.value)
    IN  IF read.threw
        THEN [stats |-> [stats EXCEPT !.fileCount = @ + 1], error |-> TRUE]
        ELSE [stats |-> [stats EXCEPT !.fileCount = @ + 1,
                                      !.totalTokens = @ + e.tokens,
                                      !.totalCharacters = @ + e.chars,
                                      !.totalLines = @ + e.lines,
                                      !.fileBreakdown = Append(@, e)],
              error |-> FALSE]
\* token-counter.ts, the body of the loop over the files of one pattern
analyzeFile(stats, f, fs) ==
    LET read == readFileSync(f, fs)
        e    == Entry(f, read.value)
    IN  IF read.threw
        THEN [stats |-> stats, error |-> TRUE]
        ELSE [stats |-> [stats EXCEPT !.fileCount = @ + 1,
                                      !.totalTokens = @ + e.tokens,
                                      !.totalCharacters = @ + e.chars,
                                      !.totalLines = @ + e.lines,
                                      !.fileBreakdown = Append(@, e)],
              error |-> FALSE]

\* the development counter, the body of inputFiles.forEach and of
\* outputFiles.forEach
analyzeDevelopmentFile(section, f, fs) ==
    LET read == readFileSync(f, fs)
        e    == Entry(f, read.value)
    IN  IF read.threw
        THEN [stats |-> section, error |-> TRUE]
        ELSE [stats |-> [section EXCEPT !.fileCount = @ + 1,
                                        !.totalTokens = @ + e.tokens,
                                        !.totalCharacters = @ + e.chars,
                                        !.totalLines = @ + e.lines,
                                        !.files = Append(@, e)],
              error |-> FALSE]

\* no token analysis started
NoAnalysis == [phase |-> "idle"]

\* token-counter.ts analyzeProject as its loop over the patterns starts
StartCounter(fs, includeOutput) ==
    [tool |-> "counter", phase |-> "patterns", fs |-> fs,
     includeOutput |-> includeOutput,
     patterns |-> IF includeOutput THEN inputPatterns \o outputPatterns
                                   ELSE inputPatterns,
     todo |-> <<>>,
     stats |-> [fileCount |-> 0, totalTokens |-> 0, totalCharacters |-> 0,
                totalLines |-> 0, fileBreakdown |-> <<>>],
     errors |-> <<>>]

\* the development analyzeProject as inputFiles.forEach starts
StartDevelopment(fs) ==
    LET empty == [fileCount |-> 0, totalTokens |-> 0, totalCharacters |-> 0,
                  totalLines |-> 0, files |-> <<>>]
    IN  [tool |-> "development", phase |-> "input", fs |-> fs,
         todo |-> globSync(inputPatterns, excludePatterns, fs),
         stats |-> [input |-> empty, output |-> empty,
                    combined |-> [fileCount |-> 0, totalTokens |-> 0,
                                  totalCharacters |-> 0, totalLines |-> 0]],
         errors |-> <<>>]

\* for (const pattern of patternsToInclude): files = glob.sync(pattern, ...)
CounterGlob(a) ==
    [a EXCEPT !.patterns = Tail(@),
              !.todo = globSync(<<Head(a.patterns)>>, excludePatterns, a.fs)]

\* for (const file of files) { try ... catch ... }
CounterFile(a) ==
    LET done == analyzeFile(a.stats, Head(a.todo), a.fs)
    IN  [a EXCEPT !.todo = Tail(@),
                  !.stats = done.stats,
                  !.errors = IF done.error THEN Append(@, Head(a.todo)) ELSE @]

\* return stats
CounterReturn(a) == [a EXCEPT !.phase = "done"]

\* inputFiles.forEach(file => { try ... catch ... })
DevelopmentInput(a) ==
    LET done == analyzeDevelopmentFile(a.stats.input, Head(a.todo), a.fs)
    IN  [a EXCEPT !.todo = Tail(@),
                  !.stats.input = done.stats,
                  !.errors = IF done.error THEN Append(@, Head(a.todo)) ELSE @]

\* outputFiles = glob.sync(outputPatterns, { cwd: projectPath })
DevelopmentGlobOutput(a) ==
    [a EXCEPT !.phase = "output",
              !.todo = globSync(developmentOutputPatterns, <<>>, a.fs)]

\* outputFiles.forEach(file => { try ... catch ... })
DevelopmentOutput(a) ==
    LET done == analyzeDevelopmentFile(a.stats.output, Head(a.todo), a.fs)
    IN  [a EXCEPT !.todo = Tail(@),
                  !.stats.output = done.stats,
                  !.errors = IF done.error THEN Append(@, Head(a.todo)) ELSE @]

\* the combined stats, and return stats
DevelopmentCombine(a) ==
    [a EXCEPT !.phase = "done",
              !.stats.combined =
                  [fileCount |-> a.stats.input.fileCount + a.stats.output.fileCount,
                   totalTokens |-> a.stats.input.totalTokens + a.stats.output.totalTokens,
                   totalCharacters |->
                       a.stats.input.totalCharacters + a.stats.output.totalCharacters,
                   totalLines |-> a.stats.input.totalLines + a.stats.output.totalLines]]

\* the consumers as the modules are loaded: nothing decrypted, nothing typed,
\* the script not run
ConsumersLoaded(sealedWith) ==
    /\ cred = CREDENTIALS(sealedWith)
    /\ accesses = <<>>
    /\ form = NoForm
    /\ cli = NoCli
    /\ inflight = [i \in Invocations |-> Idle]
    /\ run = NotStarted
    /\ analysis = NoAnalysis

Init ==
    /\ password \in SamplePlaintexts
    /\ processEnv \in EnvValues
    /\ enc = NoEnc
    /\ dec = NoDec
    /\ prev = NoEnc
    /\ ConsumersLoaded(Undefined)

\* the environment variable is set, changed or removed outside the module
SetEnv(v) ==
    /\ v # processEnv
    /\ processEnv' = v
    /\ UNCHANGED <<password, enc, dec, prev, consumers, tooling, inflight>>

\* a call encryptPassword(password, encryptionKey), random being what
\* crypto.randomBytes(16) returns to it
Encrypt(encryptionKey, random) ==
    /\ enc' = encryptPassword(password, encryptionKey, processEnv, random)
    /\ dec' = NoDec
    /\ UNCHANGED <<password, processEnv, prev, consumers, tooling, inflight>>

\* a further call encryptPassword(password, encryptionKey), the run keeping
\* the call before it
Reseal(encryptionKey, random) ==
    /\ enc.called
    /\ enc' = encryptPassword(password, encryptionKey, processEnv, random)
    /\ prev' = enc
    /\ dec' = NoDec
    /\ UNCHANGED <<password, processEnv, consumers, tooling, inflight>>

\* a call decryptPassword(encryptedPassword, encryptionKey)
Decrypt(encryptedPassword, encryptionKey) ==
    /\ dec' = decryptPassword(encryptedPassword, encryptionKey, processEnv)
    /\ UNCHANGED <<password, processEnv, enc, prev, consumers, tooling, inflight>>

\* decryptPassword on the stored envelope, under any key argument
DecryptStored ==
    /\ enc.called
    /\ \E k \in ExplicitKeys : Decrypt(enc.result, k)

\* decryptPassword on a variation of the stored envelope, with the key
\* argument and the environment it was sealed with
DecryptVaried ==
    /\ enc.called
    /\ processEnv = enc.env
    /\ \E e \in Variations(enc.result) : Decrypt(e, enc.encryptionKey)

\* decryptPassword on a string no encryption produced
DecryptJunk ==
    /\ ~enc.called
    /\ \E e \in Junk, k \in ExplicitKeys : Decrypt(e, k)

Next ==
    \/ \E v \in EnvValues : SetEnv(v)
    \/ \E k \in ExplicitKeys, r \in randomBytes(16) : Encrypt(k, r)
    \/ DecryptStored
    \/ DecryptVaried
    \/ DecryptJunk

Spec == Init /\ [][Next]_vars

(* Round trips over every plaintext up to MaxLen code units: each run      *)
(* seals one plaintext and opens the envelope again.                       *)
InitRoundTrip ==
    /\ password \in Plaintexts
    /\ processEnv \in EnvValues
    /\ enc = NoEnc
    /\ dec = NoDec
    /\ prev = NoEnc
    /\ ConsumersLoaded(Undefined)

\* decryptPassword on the stored envelope with the key argument it was
\* sealed with
DecryptSame ==
    /\ enc.called
    /\ Decrypt(enc.result, enc.encryptionKey)

NextRoundTrip ==
    \/ \E k \in ExplicitKeys, r \in randomBytes(16) : Encrypt(k, r)
    \/ DecryptSame

SpecRoundTrip == InitRoundTrip /\ [][NextRoundTrip]_vars

(* Repeated sealing: each run seals one plaintext again and again, keeping *)
(* the call before the latest, and opens the latest envelope.              *)
NextReseal ==
    \/ \E k \in ExplicitKeys, r \in randomBytes(16) : ~enc.called /\ Encrypt(k, r)
    \/ \E k \in ExplicitKeys, r \in randomBytes(16) : Reseal(k, r)
    \/ DecryptSame

SpecReseal == Init /\ [][NextReseal]_vars

(* The consumers: the credential accessor and the login helper *)

MaxAccesses == 2   \* getPassword calls a run keeps

\* 'other@hydrax.io', 'typed-secret': arguments a caller passes to login
OtherEmail == <<111, 116, 104, 101, 114, 64, 104, 121, 100, 114, 97, 120, 46, 105, 111>>
TypedPassword == <<116, 121, 112, 101, 100, 45, 115, 101, 99, 114, 101, 116>>

\* a call CREDENTIALS.OPERATOR.getPassword()
GetPassword ==
    /\ Len(accesses) < MaxAccesses
    /\ accesses' = Append(accesses, getPassword(cred, processEnv))
    /\ UNCHANGED <<password, processEnv, enc, dec, prev, cred, form, cli, inflight, tooling>>

\* a call loginHelper.login(email, password), arguments given or omitted
Login(email, pw, formFound) ==
    /\ form' = login(cred, email, pw, formFound)
    /\ UNCHANGED <<password, processEnv, enc, dec, prev, cred, accesses, cli, inflight, tooling>>

InitLogin ==
    /\ password = OperatorPassword
    /\ processEnv \in EnvValues
    /\ enc = NoEnc
    /\ dec = NoDec
    /\ prev = NoEnc
    /\ \E sealedWith \in SealingKeys : ConsumersLoaded(sealedWith)

NextLogin ==
    \/ \E v \in EnvValues : SetEnv(v)
    \/ GetPassword
    \/ \E email \in {Undefined, OtherEmail}, pw \in {Undefined, TypedPassword},
          formFound \in BOOLEAN : Login(email, pw, formFound)

SpecLogin == InitLogin /\ [][NextLogin]_vars

\* a run that starts with the stored envelope sealed under the built-in key
\* and seals the password 'a'
InitCalls ==
    /\ password = <<97>>
    /\ processEnv \in EnvValues
    /\ enc = NoEnc
    /\ dec = NoDec
    /\ prev = NoEnc
    /\ ConsumersLoaded(Undefined)

(* Calls of all three kinds in one run: encryptPassword, decryptPassword  *)
(* on the latest envelope, getPassword, and changes of the environment     *)
(* key between them.                                                       *)
NextCalls ==
    \/ \E v \in EnvValues : SetEnv(v)
    \/ \E k \in {Undefined, TestKey}, r \in randomBytes(16) : Encrypt(k, r)
    \/ DecryptSame
    \/ GetPassword

SpecCalls == InitCalls /\ [][NextCalls]_vars

(* Interleaved invocations: each encryptPassword or decryptPassword       *)
(* invocation runs in two steps, the resolution of its key (line 26, 56)   *)
(* and the rest of its body, and steps of other invocations and changes of *)
(* the environment key come between them in every order.                   *)

\* invocation i starts: encryptPassword(password, k) or
\* decryptPassword(CREDENTIALS.OPERATOR.encryptedPassword, k)
Invoke(i, op, k) ==
    /\ inflight[i].pc = "idle"
    /\ inflight' = [inflight EXCEPT ![i] =
                      [Idle EXCEPT !.pc = "resolve", !.op = op, !.encryptionKey = k]]
    /\ UNCHANGED <<password, processEnv, enc, dec, prev, consumers, tooling>>

\* invocation i evaluates const key = encryptionKey || process.env... || DEFAULT_KEY
ResolveStep(i) ==
    /\ inflight[i].pc = "resolve"
    /\ inflight' = [inflight EXCEPT ![i].pc = "body",
                      ![i].key = IF inflight[i].op = "encrypt"
                                 THEN EncryptKey(inflight[i].encryptionKey, processEnv)
                                 ELSE DecryptKey(inflight[i].encryptionKey, processEnv)]
    /\ UNCHANGED <<password, processEnv, enc, dec, prev, consumers, tooling>>

\* variant: the key kept in one variable of the module that every invocation
\* writes, read back after another invocation wrote it
KeyInBody_shared(i) ==
    LET others == {j \in Invocations : j # i /\ inflight[j].pc \in {"body", "done"}}
    IN IF others = {} THEN inflight[i].key ELSE inflight[CHOOSE j \in others : TRUE].key
\* the key invocation i uses after resolving it: its own const key
KeyInBody(i) == inflight[i].key

\* invocation i runs the rest of encryptPassword and returns; its key being
\* resolved and not empty, the body is that of a call given it as argument
EncryptBody(i, random) ==
    /\ inflight[i].pc = "body" /\ inflight[i].op = "encrypt"
    /\ inflight' = [inflight EXCEPT ![i].pc = "done", ![i].random = random,
                      ![i].finals = @ + 1,
                      ![i].outcome = Return(encryptPassword(password, KeyInBody(i),
                                                            Undefined, random).result)]
    /\ UNCHANGED <<password, processEnv, enc, dec, prev, consumers, tooling>>

\* variant: a failed decipher.final() caught and the decipher run again, up
\* to three times, before the error is let through
DecryptBody_retrying(i) ==
    LET o == decryptPassword(cred.encryptedPassword, KeyInBody(i), Undefined).outcome
    IN /\ inflight[i].pc = "body" /\ inflight[i].op = "decrypt"
       /\ inflight' = [inflight EXCEPT
                         ![i].pc = IF o.threw /\ inflight[i].finals < 2
                                   THEN "body" ELSE "done",
                         ![i].finals = @ + 1,
                         ![i].outcome = o]
       /\ UNCHANGED <<password, processEnv, enc, dec, prev, consumers, tooling>>
\* invocation i runs the rest of decryptPassword, decipher.final() called
\* once (finals counts the calls), and returns or throws
DecryptBody(i) ==
    /\ inflight[i].pc = "body" /\ inflight[i].op = "decrypt"
    /\ inflight' = [inflight EXCEPT ![i].pc = "done", ![i].finals = @ + 1,
                      ![i].outcome = decryptPassword(cred.encryptedPassword, KeyInBody(i),
                                                     Undefined).outcome]
    /\ UNCHANGED <<password, processEnv, enc, dec, prev, consumers, tooling>>

\* the caller of invocation i has taken its outcome
Retire(i) ==
    /\ inflight[i].pc = "done"
    /\ inflight' = [inflight EXCEPT ![i] = Idle]
    /\ UNCHANGED <<password, processEnv, enc, dec, prev, consumers, tooling>>

NextInterleaved ==
    \/ \E v \in EnvValues : SetEnv(v)
    \/ \E i \in Invocations, op \in {"encrypt", "decrypt"}, k \in {Undefined, TestKey} :
          Invoke(i, op, k)
    \/ \E i \in Invocations : ResolveStep(i)
    \/ \E i \in Invocations, r \in randomBytes(16) : EncryptBody(i, r)
    \/ \E i \in Invocations : DecryptBody(i)
    \/ \E i \in Invocations : Retire(i)

SpecInterleaved == InitCalls /\ [][NextInterleaved]_vars

(* The encrypt-password script *)

\* process.argv[2]: missing, empty, or text (the command line is decoded
\* text, so it has no unpaired surrogate)
Arguments == {Undefined} \cup {p \in Plaintexts : WellFormed(p)}

\* the encrypt-password script run by its process, from its first line to
\* its exit (a process runs the script once)
RunScript(arg, random) ==
    /\ ~cli.ran
    /\ cli' = EncryptPasswordScript(arg, processEnv, random)
    /\ UNCHANGED <<password, processEnv, enc, dec, prev, cred, accesses, form, inflight, tooling>>

NextScript ==
    \/ \E v \in EnvValues : SetEnv(v)
    \/ \E arg \in Arguments, r \in randomBytes(16) : RunScript(arg, r)

\* a run of the script alone
InitScript ==
    /\ password = <<>>
    /\ processEnv \in EnvValues
    /\ enc = NoEnc
    /\ dec = NoDec
    /\ prev = NoEnc
    /\ ConsumersLoaded(Undefined)

SpecScript == InitScript /\ [][NextScript]_vars

----------------------------------------------------------------------------
(* Vocabulary of the claims *)

\* a call returned a value
Returned(o) == ~o.threw

\* the authentication failure decipher.final() raises
IntegrityError(o) == o.threw /\ o.error = ERR_UNABLE_TO_AUTHENTICATE

\* the errors raised for an envelope of the wrong shape
InvalidEnvelopeError(o) ==
    o.threw /\ o.error \in {ERR_CRYPTO_INVALID_IV, ERR_CRYPTO_INVALID_AUTH_TAG}

\* a string of the standard base64 alphabet, in whole groups of four, padded
\* only at its end
IsBase64(s) ==
    LET n == Len(s)
        std(c) == unbase64(c) < 64 /\ c # 45 /\ c # 95
    IN /\ n % 4 = 0
       /\ \A i \in 1..n : std(s[i]) \/ (s[i] = 61 /\ i >= n - 1)
       /\ (n > 0 /\ s[n] # 61) => std(s[n])
       /\ (n > 1 /\ s[n - 1] = 61) => s[n] = 61

\* buffers a and b have the same length and differ in exactly one byte, whose
\* offset (from 0) is in lo..hi
OneByteChanged(a, b, lo, hi) ==
    /\ Len(a) = Len(b)
    /\ \E i \in 1..Len(a) :
        /\ a[i] # b[i]
        /\ i - 1 >= lo /\ i - 1 <= hi
        /\ \A j \in 1..Len(a) : j # i => a[j] = b[j]

\* the latest decryptPassword call was given exactly what the latest
\* encryptPassword call returned
OpensStored == enc.called /\ dec.called /\ dec.encryptedPassword = enc.result

----------------------------------------------------------------------------
(* C1: round trip.  As claimed: for every plaintext string p and every key *)
(* k, decryptPassword(encryptPassword(p, k), k) returns exactly p.         *)
C1_RoundTripEveryString ==
    (OpensStored /\ dec.encryptionKey = enc.encryptionKey /\ dec.env = enc.env)
        => dec.outcome = Return(enc.password)

(* C1 as amended: for every plaintext string p without an unpaired         *)
(* surrogate (the empty string and strings with multi-byte characters      *)
(* included) and every key k, decryptPassword(encryptPassword(p, k), k)    *)
(* returns exactly p.                                                      *)
C1_RoundTrip ==
    (OpensStored /\ dec.encryptionKey = enc.encryptionKey /\ dec.env = enc.env
        /\ WellFormed(enc.password))
        => dec.outcome = Return(enc.password)

\* U+1F600 (a surrogate pair, four bytes of UTF-8) sealed and opened again
\* with the same key
C1_Witness ==
    /\ OpensStored /\ dec.encryptionKey = enc.encryptionKey
    /\ enc.password = <<55357, 56832>>
    /\ Len(enc.combined) = 36
    /\ dec.outcome = Return(<<55357, 56832>>)

----------------------------------------------------------------------------
\* the latest decryptPassword call was given the stored envelope with exactly
\* one byte changed, at an offset in lo..hi
GivenOneByteChanged(lo, hi) ==
    /\ enc.called /\ dec.called
    /\ OneByteChanged(fromBase64(dec.encryptedPassword), enc.combined, lo, hi)

(* C2: an envelope obtained from a valid envelope by changing any          *)
(* ciphertext byte (offset 32 or later) makes decryptPassword fail with    *)
(* the authentication error; no altered plaintext is returned.             *)
C2_CiphertextTamperDetected ==
    GivenOneByteChanged(32, Len(enc.combined) - 1)
        => /\ IntegrityError(dec.outcome)
           /\ dec.outcome.value = Undefined

\* a ciphertext byte of a stored envelope changed, the envelope opened with
\* the key it was sealed with, and the call failing
C2_Witness ==
    /\ GivenOneByteChanged(32, Len(enc.combined) - 1)
    /\ dec.key = enc.key
    /\ Len(enc.combined) > 33
    /\ IntegrityError(dec.outcome)

----------------------------------------------------------------------------
(* C3: wrong key.  As claimed: for every plaintext p and every pair of     *)
(* keys k1 # k2, decryptPassword(encryptPassword(p, k1), k2) fails with    *)
(* the authentication error.                                               *)
C3_EveryOtherKeyFails ==
    (OpensStored /\ enc.encryptionKey # Undefined /\ dec.encryptionKey # Undefined
        /\ dec.encryptionKey # enc.encryptionKey)
        => IntegrityError(dec.outcome)

(* C3 as amended: for every plaintext p and every pair of keys k1 # k2     *)
(* that resolve to different passphrases (any two different non-empty      *)
(* keys do; an empty key resolves to the environment key or the built-in   *)
(* one), decryptPassword(encryptPassword(p, k1), k2) fails with the        *)
(* authentication error and returns nothing.                               *)
C3_WrongKeyFails ==
    (OpensStored /\ enc.encryptionKey # Undefined /\ dec.encryptionKey # Undefined
        /\ dec.encryptionKey # enc.encryptionKey
        /\ DecryptKey(dec.encryptionKey, dec.env) # EncryptKey(enc.encryptionKey, enc.env))
        => /\ IntegrityError(dec.outcome)
           /\ dec.outcome.value = Undefined

\* sealed under 'test-key', opened under 'wrong-key', and the call failing
C3_Witness ==
    /\ OpensStored
    /\ enc.encryptionKey = TestKey /\ dec.encryptionKey = WrongKey
    /\ enc.password # <<>>
    /\ IntegrityError(dec.outcome)

----------------------------------------------------------------------------
\* an envelope string that is not base64, or that decodes to fewer bytes than
\* a nonce and a tag take
Malformed(s) == ~IsBase64(s) \/ Len(fromBase64(s)) < 32

(* C4: decryptPassword on an input that is not a well-formed envelope (not *)
(* valid base64, or too short to hold a nonce and a tag) fails with the    *)
(* error for envelopes of the wrong shape.                                 *)
C4_MalformedRejected ==
    (dec.called /\ Malformed(dec.encryptedPassword))
        => InvalidEnvelopeError(dec.outcome)

----------------------------------------------------------------------------
\* the passphrase that a call given argument k under environment value e is
\* claimed to use, "supplied" and "set" read as "not undefined"
PassphraseWhenPresent(k, e) ==
    IF k # Undefined THEN k ELSE IF e # Undefined THEN e ELSE DEFAULT_KEY

\* the same, "supplied" and "set" read as "not undefined and not empty"
PassphraseWhenNonEmpty(k, e) ==
    IF k \notin {Undefined, <<>>} THEN k
    ELSE IF e \notin {Undefined, <<>>} THEN e
    ELSE DEFAULT_KEY

(* C5: key precedence.  As claimed: on every call the passphrase used is   *)
(* the explicit key argument when one is supplied, else the environment    *)
(* value when it is set, else the built-in default; a lower-precedence     *)
(* source is used only when every higher one is absent.                    *)
C5_PrecedenceOfPresent ==
    /\ enc.called => enc.key = PassphraseWhenPresent(enc.encryptionKey, enc.env)
    /\ dec.called => dec.key = PassphraseWhenPresent(dec.encryptionKey, dec.env)

(* C5 as amended: on every call the passphrase used is the explicit key    *)
(* argument when a non-empty one is supplied, else the environment value   *)
(* when it is set and non-empty, else the built-in default; a lower source *)
(* is used only when every higher one is absent or empty.                  *)
C5_Precedence ==
    /\ enc.called => enc.key = PassphraseWhenNonEmpty(enc.encryptionKey, enc.env)
    /\ dec.called => dec.key = PassphraseWhenNonEmpty(dec.encryptionKey, dec.env)

\* both calls given 'test-key' while the environment holds 'wrong-key', and
\* both using 'test-key'
C5_Witness ==
    /\ OpensStored
    /\ enc.encryptionKey = TestKey /\ enc.env = WrongKey /\ enc.key = TestKey
    /\ dec.encryptionKey = TestKey /\ dec.env = WrongKey /\ dec.key = TestKey
    /\ Returned(dec.outcome)

----------------------------------------------------------------------------
\* 'playwright-test' in UTF-8, the associated data both directions fix
FixedAAD == <<112, 108, 97, 121, 119, 114, 105, 103, 104, 116, 45, 116, 101, 115, 116>>

\* the tag bytes of the envelope given to the latest decryptPassword call are
\* the tag of its nonce bytes and its ciphertext bytes under the fixed
\* associated data and the key derived from the resolved passphrase
GivenTagVerifies ==
    LET b == fromBase64(dec.encryptedPassword)
        n == Len(b)
        tag == SubSeq(b, 17, Min(32, n))
        expected == GcmTag(deriveKey(dec.key), SubSeq(b, 1, Min(16, n)), FixedAAD,
                           SubSeq(b, 33, n))
    IN tag = SubSeq(expected, 1, Len(tag))

(* C6: decryptPassword returns a plaintext only when the envelope's tag    *)
(* verifies against its nonce, its ciphertext, the fixed associated data   *)
(* and the resolved key; changing a byte of the nonce or of the tag makes  *)
(* the call fail; a failed call returns nothing at all.                    *)
C6_TagVerifiedBeforeRelease ==
    /\ (dec.called /\ Returned(dec.outcome)) => GivenTagVerifies
    /\ GivenOneByteChanged(0, 31) => dec.outcome.threw
    /\ (dec.called /\ dec.outcome.threw) => dec.outcome.value = Undefined

\* the last byte of the tag of a stored envelope changed, the envelope opened
\* with the key it was sealed with, and the call failing
C6_Witness ==
    /\ GivenOneByteChanged(31, 31)
    /\ dec.key = enc.key
    /\ ~GivenTagVerifies
    /\ dec.outcome.threw /\ dec.outcome.value = Undefined

----------------------------------------------------------------------------
\* the two latest encryptPassword calls sealed the same plaintext under the
\* same passphrase
SealedTwice ==
    /\ prev.called /\ enc.called
    /\ prev.password = enc.password /\ prev.key = enc.key

\* decryptPassword opens what the call c returned, given c's key argument
\* under c's environment, and returns c's plaintext
Opens(c) ==
    decryptPassword(c.result, c.encryptionKey, c.env).outcome = Return(c.password)

(* C7: nonce uniqueness.  As claimed: no two encryptPassword calls use the *)
(* same nonce, so two calls with the same plaintext and key yield          *)
(* different envelopes, and both decrypt to that plaintext.                *)
C7_NoNonceTwice ==
    SealedTwice
        => /\ prev.iv # enc.iv
           /\ prev.result # enc.result
           /\ Opens(prev) /\ Opens(enc)

(* C7 as amended: every encryptPassword call takes as its nonce the 16     *)
(* bytes it draws from the random source in that call; whenever the values *)
(* drawn by two calls differ the nonces differ, and two calls with the     *)
(* same plaintext and key then yield different envelopes (equal draws      *)
(* yield equal envelopes); both envelopes decrypt to that plaintext when   *)
(* it has no unpaired surrogate.                                           *)
C7_FreshNoncePerCall ==
    /\ enc.called => (enc.iv = enc.random /\ Len(enc.iv) = 16)
    /\ SealedTwice
        => /\ (prev.random # enc.random) => (prev.iv # enc.iv)
           /\ (prev.iv # enc.iv) <=> (prev.result # enc.result)
           /\ WellFormed(enc.password) => (Opens(prev) /\ Opens(enc))

\* two calls sealing the same non-empty plaintext under the same passphrase
\* with different draws, their envelopes different, and the latest opened
C7_Witness ==
    /\ SealedTwice
    /\ enc.password # <<>>
    /\ prev.random # enc.random
    /\ prev.result # enc.result
    /\ OpensStored /\ dec.outcome = Return(enc.password)

----------------------------------------------------------------------------
(* C8: wire format.  The string encryptPassword returns is the base64      *)
(* encoding of exactly: the 16-byte nonce, then the 16-byte tag, then the  *)
(* ciphertext; decryptPassword reads the decoded bytes by the same         *)
(* offsets.                                                                *)
C8_WireFormat ==
    /\ enc.called =>
        LET b == fromBase64(enc.result)
            ct == GcmCrypt(deriveKey(enc.key), enc.iv, Utf8Encode(enc.password))
        IN /\ IsBase64(enc.result) /\ enc.result = toBase64(b)
           /\ Len(enc.iv) = 16 /\ Len(enc.authTag) = 16
           /\ Len(b) = 32 + Len(ct)
           /\ SubSeq(b, 1, 16) = enc.iv
           /\ SubSeq(b, 17, 32) = enc.authTag
           /\ SubSeq(b, 33, Len(b)) = ct
           /\ enc.authTag = GcmTag(deriveKey(enc.key), enc.iv, FixedAAD, ct)
    /\ dec.called =>
        LET b == fromBase64(dec.encryptedPassword)
            n == Len(b)
        IN /\ dec.iv = SubSeq(b, 1, Min(16, n))
           /\ dec.authTag = SubSeq(b, 17, Min(32, n))
           /\ dec.encrypted = SubSeq(b, 33, n)
    /\ OpensStored =>
        /\ dec.iv = enc.iv /\ dec.authTag = enc.authTag
        /\ dec.encrypted = fromBase64(enc.encrypted)

\* a non-empty plaintext sealed, and the envelope opened with the nonce, the
\* tag and the ciphertext read back from it
C8_Witness ==
    /\ OpensStored
    /\ Len(dec.iv) = 16 /\ Len(dec.authTag) = 16 /\ Len(dec.encrypted) = 3
    /\ dec.outcome = Return(enc.password)

----------------------------------------------------------------------------
\* a decryptPassword call without key argument follows an encryptPassword
\* call without key argument, the environment key changed in between
EnvChangedBetweenCalls ==
    /\ enc.called /\ dec.called
    /\ enc.encryptionKey = Undefined /\ dec.encryptionKey = Undefined
    /\ dec.env # enc.env

(* C9: no caching of the key resolution.  As claimed: if the environment   *)
(* key changes between two calls without explicit key, the later call uses *)
(* the new environment value, or the default if the variable was removed.  *)
C9_LaterCallUsesNewValue ==
    EnvChangedBetweenCalls
        => dec.key = (IF dec.env = Undefined THEN DEFAULT_KEY ELSE dec.env)

(* C9 as amended: the resolution is redone on every call and never cached: *)
(* if the environment key changes between two calls without explicit key,  *)
(* the later call uses the new environment value when that is non-empty,   *)
(* and the default when the variable was removed or set to the empty       *)
(* string; the key the earlier call resolved plays no part.                *)
C9_ResolvedOnEveryCall ==
    /\ (dec.called /\ dec.encryptionKey = Undefined)
        => dec.key = (IF dec.env \in {Undefined, <<>>} THEN DEFAULT_KEY ELSE dec.env)
    /\ (enc.called /\ enc.encryptionKey = Undefined)
        => enc.key = (IF enc.env \in {Undefined, <<>>} THEN DEFAULT_KEY ELSE enc.env)

\* sealed with the variable unset, opened after it was set to 'wrong-key':
\* the later call uses 'wrong-key' and fails to authenticate
C9_Witness ==
    /\ EnvChangedBetweenCalls
    /\ enc.env = Undefined /\ enc.key = DEFAULT_KEY
    /\ dec.env = WrongKey /\ dec.key = WrongKey
    /\ dec.encryptedPassword = enc.result
    /\ IntegrityError(dec.outcome)

----------------------------------------------------------------------------
(* C10: the two failure kinds are distinct: a decryptPassword call that    *)
(* fails on a malformed envelope reports the error for envelopes of the    *)
(* wrong shape, one that fails on a well-formed envelope reports the       *)
(* authentication error, and no input is reported under the other kind.    *)
C10_FailureKindsDistinct ==
    (dec.called /\ dec.outcome.threw)
        => /\ Malformed(dec.encryptedPassword) <=> InvalidEnvelopeError(dec.outcome)
           /\ ~Malformed(dec.encryptedPassword) <=> IntegrityError(dec.outcome)

----------------------------------------------------------------------------
\* the latest login call was made without arguments and found the login form
LoggedInAsOperator ==
    form.called /\ form.emailArg = Undefined /\ form.passwordArg = Undefined
        /\ form.filled

(* C11: when LoginHelper.login is invoked without arguments, the password  *)
(* it types into the form is the plaintext obtained by decrypting the      *)
(* OPERATOR envelope (getPassword); it is never an undefined value.        *)
C11_LoginTypesDecryptedPassword ==
    LoggedInAsOperator
        => /\ form.password # Undefined
           /\ \E env \in EnvValues :
                form.password = getPassword(cred, env).outcome.value

----------------------------------------------------------------------------
\* a step in which CREDENTIALS.OPERATOR.getPassword() is called
AccessStep == accesses' # accesses

(* C12: the credential accessor is lazy and uncached: loading CREDENTIALS  *)
(* performs no decryption, and every getPassword() call performs a fresh   *)
(* decryptPassword of the stored envelope, without key argument, with the  *)
(* key resolved from the environment at that moment.                       *)
C12_LazyUncached ==
    /\ accesses = <<>> /\ ~dec.called
    /\ [][AccessStep =>
            /\ Len(accesses') = Len(accesses) + 1
            /\ accesses'[Len(accesses')] =
                 decryptPassword(cred.getPasswordEnvelope, Undefined, processEnv)
            /\ accesses'[Len(accesses')].key =
                 PassphraseWhenNonEmpty(Undefined, processEnv)
            /\ SubSeq(accesses', 1, Len(accesses)) = accesses]_vars

\* two accesses separated by a change of the environment key, the first
\* returning the operator password and the second failing to authenticate
C12_Witness ==
    /\ Len(accesses) = 2
    /\ accesses[1].env # accesses[2].env
    /\ accesses[1].outcome = Return(OperatorPassword)
    /\ IntegrityError(accesses[2].outcome)

----------------------------------------------------------------------------
\* the lines a successful run prints: the original value, the envelope, the
\* decrypted value and the verification result, and the envelope to copy
PrintsResult ==
    /\ Len(cli.log) = 4
    /\ cli.log[1].original = cli.arg
    /\ cli.log[2].encrypted = cli.copy
    /\ cli.log[4].verification = (cli.log[3].decrypted = cli.arg)
    /\ IsBase64(cli.copy)
    /\ decryptPassword(cli.copy, Undefined, cli.env).outcome = Return(cli.arg)

(* C13: CLI exit behaviour.  As claimed: the script exits with a non-zero  *)
(* code when no argument is supplied or when encryption raises an error,   *)
(* and otherwise prints the original value, the envelope and the           *)
(* verification result and exits with code zero.                           *)
C13_ExitZeroWhenArgumentSupplied ==
    cli.ran =>
        IF cli.arg = Undefined
        THEN cli.exitCode # 0
        ELSE (cli.stderr = "Encryption failed" /\ cli.exitCode # 0)
             \/ (cli.exitCode = 0 /\ PrintsResult)

(* C13 as amended: the script exits with a non-zero code when no argument  *)
(* or an empty argument is supplied or when encryption raises an error     *)
(* (printing a failure message), and otherwise prints the original value,  *)
(* the envelope and the verification result and exits with code zero.      *)
C13_ExitBehaviour ==
    cli.ran =>
        IF cli.arg = Undefined \/ cli.arg = <<>>
        THEN cli.exitCode # 0 /\ cli.stderr # "" /\ cli.log = <<>>
        ELSE (cli.stderr = "Encryption failed" /\ cli.exitCode # 0)
             \/ (cli.exitCode = 0 /\ cli.stderr = "" /\ PrintsResult)

\* a run with an argument that prints a verified envelope and exits with 0
C13_Witness ==
    /\ cli.ran /\ cli.arg = <<97, 233>>
    /\ cli.exitCode = 0 /\ PrintsResult
    /\ cli.log[4].verification

----------------------------------------------------------------------------
\* what decryptPassword gives for envelope e under passphrase k, computed
\* from these two alone
OutcomeFor(e, k) ==
    LET b == fromBase64(e)
        n == Len(b)
        iv == SubSeq(b, 1, Min(16, n))
        tag == SubSeq(b, 17, Min(32, n))
        ct == SubSeq(b, 33, n)
    IN IF n = 0 THEN Throw(ERR_CRYPTO_INVALID_IV)
       ELSE IF Len(tag) \notin ValidGcmTagLengths THEN Throw(ERR_CRYPTO_INVALID_AUTH_TAG)
       ELSE IF tag # SubSeq(GcmTag(deriveKey(k), iv, FixedAAD, ct), 1, Len(tag))
            THEN Throw(ERR_UNABLE_TO_AUTHENTICATE)
       ELSE Return(Utf8Decode(GcmCrypt(deriveKey(k), iv, ct)))

\* the envelope for plaintext p under passphrase k and nonce iv, computed
\* from these three alone
EnvelopeFor(p, k, iv) ==
    LET ct == GcmCrypt(deriveKey(k), iv, Utf8Encode(p))
    IN toBase64(iv \o GcmTag(deriveKey(k), iv, FixedAAD, ct) \o ct)

\* a step in which encryptPassword, decryptPassword or getPassword is called
CallStep == enc' # enc \/ (dec' # dec /\ dec'.called) \/ accesses' # accesses

(* C14: statelessness: a call of encryptPassword, decryptPassword or       *)
(* getPassword, whether it succeeds or fails, leaves the environment key   *)
(* and the stored credential envelope unchanged, and its result comes from *)
(* its own arguments, the environment key at the call and its own draw     *)
(* from the random source: no key, nonce or plaintext of an earlier call   *)
(* takes part.                                                             *)
C14_Stateless ==
    [][CallStep =>
        /\ processEnv' = processEnv /\ cred' = cred
        /\ cred.encryptedPassword = StoredEnvelope(Undefined)
        /\ enc' # enc =>
            /\ enc'.password = password
            /\ enc'.key = PassphraseWhenNonEmpty(enc'.encryptionKey, processEnv)
            /\ enc'.random \in randomBytes(16)
            /\ enc'.iv = enc'.random
            /\ enc'.result = EnvelopeFor(password, enc'.key, enc'.random)
        /\ (dec' # dec /\ dec'.called) =>
            /\ dec'.key = PassphraseWhenNonEmpty(dec'.encryptionKey, processEnv)
            /\ dec'.outcome = OutcomeFor(dec'.encryptedPassword, dec'.key)
        /\ accesses' # accesses =>
            LET a == accesses'[Len(accesses')]
            IN /\ a.key = PassphraseWhenNonEmpty(Undefined, processEnv)
               /\ a.outcome = OutcomeFor(cred.getPasswordEnvelope, a.key)]_vars

\* a run in which a failed getPassword call, a second encryptPassword call
\* and a successful decryptPassword call have been made, the environment key
\* and the stored envelope as they were set
C14_Witness ==
    /\ Len(accesses) = 2 /\ accesses[1].outcome.threw /\ Returned(accesses[2].outcome)
    /\ enc.called /\ enc.random # CHOOSE r \in randomBytes(16) : TRUE
    /\ dec.called /\ dec.outcome = Return(password)
    /\ cred = CREDENTIALS(Undefined)

----------------------------------------------------------------------------
\* what invocation i gives when it runs alone with the key it resolved
AloneOutcome(i) ==
    IF inflight[i].op = "encrypt"
    THEN Return(EnvelopeFor(password, inflight[i].key, inflight[i].random))
    ELSE OutcomeFor(cred.encryptedPassword, inflight[i].key)

(* C15: concurrent invocation is safe: in every interleaving of            *)
(* encryptPassword and decryptPassword invocations, each invocation's      *)
(* outcome equals the outcome it would have produced running alone with    *)
(* the key it resolved.                                                    *)
C15_InterleavingSafe ==
    \A i \in Invocations :
        inflight[i].pc = "done" => inflight[i].outcome = AloneOutcome(i)

\* two finished invocations that resolved different keys while the other was
\* in progress: a decryption that returned and one that failed
C15_Witness ==
    /\ inflight["a"].pc = "done" /\ inflight["b"].pc = "done"
    /\ inflight["a"].op = "decrypt" /\ inflight["b"].op = "decrypt"
    /\ inflight["a"].encryptionKey = Undefined /\ inflight["b"].encryptionKey = Undefined
    /\ inflight["a"].key # inflight["b"].key
    /\ Returned(inflight["a"].outcome) /\ IntegrityError(inflight["b"].outcome)

----------------------------------------------------------------------------
(* C16: purity of decryptPassword.  As claimed: any two invocations with   *)
(* the same envelope string and the same explicit key argument (both       *)
(* omitted included) produce the same outcome, whatever else differs       *)
(* between the two states.                                                 *)
C16_SameArgumentsSameOutcome ==
    \A i, j \in 1..Len(accesses) :
        (/\ accesses[i].encryptedPassword = accesses[j].encryptedPassword
         /\ accesses[i].encryptionKey = accesses[j].encryptionKey)
            => accesses[i].outcome = accesses[j].outcome

(* C16 as amended: decryptPassword is a function of its envelope, its      *)
(* explicit key argument and, when that argument is omitted or empty, the  *)
(* environment key at the call: two invocations with the same envelope,    *)
(* the same key argument and the same environment key produce the same     *)
(* outcome; with a non-empty key argument the outcome does not depend on   *)
(* the environment; the random draw of an encryption is the only           *)
(* non-determinism.                                                        *)
C16_FunctionOfArgumentsAndEnvironment ==
    /\ \A i, j \in 1..Len(accesses) :
        (/\ accesses[i].encryptedPassword = accesses[j].encryptedPassword
         /\ accesses[i].encryptionKey = accesses[j].encryptionKey
         /\ accesses[i].env = accesses[j].env)
            => accesses[i].outcome = accesses[j].outcome
    /\ (dec.called /\ ~Falsy(dec.encryptionKey))
        => dec.outcome = OutcomeFor(dec.encryptedPassword, dec.encryptionKey)
    /\ enc.called => enc.result = EnvelopeFor(enc.password, enc.key, enc.random)

\* two getPassword calls under the same environment key with an
\* encryptPassword call under another key between them, both returning the
\* password; and a decryptPassword call with a key argument made after the
\* environment key changed
C16_Witness ==
    /\ Len(accesses) = 2
    /\ accesses[1].env = accesses[2].env
    /\ accesses[1].outcome = Return(OperatorPassword)
    /\ accesses[2].outcome = Return(OperatorPassword)
    /\ enc.called /\ enc.encryptionKey = TestKey
    /\ dec.called /\ dec.encryptionKey = TestKey /\ dec.env # enc.env
    /\ Returned(dec.outcome)

----------------------------------------------------------------------------
(* C17: key resolution never fails: for every explicit key argument        *)
(* (absent, empty or non-empty) and every environment state (unset, empty  *)
(* or set), encryptPassword resolves a passphrase, derives a 32-byte key   *)
(* and returns an envelope.                                                *)
C17_KeyResolutionNeverFails ==
    enc.called =>
        /\ enc.encryptionKey \in ExplicitKeys /\ enc.env \in EnvValues
        /\ ~Falsy(enc.key)
        /\ enc.key \in {enc.encryptionKey, enc.env, DEFAULT_KEY}
        /\ Len(deriveKey(enc.key)) = 32
        /\ IsBase64(enc.result)
        /\ Len(fromBase64(enc.result)) = 32 + Len(Utf8Encode(enc.password))

\* encryptPassword called with an empty key argument while the environment
\* key is empty, returning an envelope sealed under the built-in passphrase
C17_Witness ==
    /\ enc.called /\ enc.encryptionKey = <<>> /\ enc.env = <<>>
    /\ enc.key = DEFAULT_KEY
    /\ enc.password # <<>>
    /\ IsBase64(enc.result)

----------------------------------------------------------------------------
(* C18: empty keys.  As claimed: a provided key is used even when it is    *)
(* the empty string: encryptPassword(p, "") and decryptPassword(e, "")     *)
(* derive key material from the empty passphrase, and an environment       *)
(* variable set to the empty string is used in preference to the default.  *)
C18_EmptyKeyUsed ==
    /\ (enc.called /\ enc.encryptionKey = <<>>) => enc.key = <<>>
    /\ (dec.called /\ dec.encryptionKey = <<>>) => dec.key = <<>>
    /\ (enc.called /\ enc.encryptionKey = Undefined /\ enc.env = <<>>) => enc.key = <<>>
    /\ (dec.called /\ dec.encryptionKey = Undefined /\ dec.env = <<>>) => dec.key = <<>>

(* C18 as amended: an empty key is treated as not provided:                *)
(* encryptPassword(p, "") and decryptPassword(e, "") derive key material   *)
(* from the environment key when that is set and non-empty and from the    *)
(* default key otherwise, exactly as the calls without key argument do,    *)
(* and an environment variable set to the empty string is passed over for  *)
(* the default; no call derives key material from the empty passphrase.    *)
C18_EmptyKeyPassedOver ==
    /\ (enc.called /\ enc.encryptionKey = <<>>)
        => enc.key = (IF enc.env \in {Undefined, <<>>} THEN DEFAULT_KEY ELSE enc.env)
    /\ (dec.called /\ dec.encryptionKey = <<>>)
        => dec.key = (IF dec.env \in {Undefined, <<>>} THEN DEFAULT_KEY ELSE dec.env)
    /\ (enc.called /\ enc.encryptionKey = Undefined /\ enc.env = <<>>)
        => enc.key = DEFAULT_KEY
    /\ (dec.called /\ dec.encryptionKey = Undefined /\ dec.env = <<>>)
        => dec.key = DEFAULT_KEY
    /\ enc.called => enc.key # <<>>
    /\ dec.called => dec.key # <<>>

\* an envelope sealed without key argument opened with the empty key
\* argument, under an environment key set to the empty string
C18_Witness ==
    /\ OpensStored
    /\ enc.encryptionKey = Undefined /\ dec.encryptionKey = <<>>
    /\ enc.env = <<>> /\ dec.env = <<>>
    /\ dec.key = DEFAULT_KEY
    /\ enc.password # <<>> /\ dec.outcome = Return(enc.password)

----------------------------------------------------------------------------
(* The repository at rest: the committed lines that name the operator's    *)
(* credentials, as sequences of code units.                                *)

\* unnamed/part_000, line 9: step 2 of the test scenario
part_000_Login ==
    <<50, 46, 32, 76, 111, 103, 105, 110, 32, 97, 115, 32, 111, 112, 101, 114, 97, 116,
      111, 114, 32, 117, 115, 101, 114, 32, 40, 113, 97, 45, 111, 112, 64, 104, 121,
      100, 114, 97, 120, 46, 105, 111, 32, 119, 105, 116, 104, 32, 112, 97, 115, 115,
      119, 111, 114, 100, 32, 104, 88, 97, 100, 109, 105, 110, 64, 50, 48, 49, 56, 41>>

\* utils/constants.ts, line 16: the encryptedPassword field
constants_encryptedPassword ==
    <<101, 110, 99, 114, 121, 112, 116, 101, 100, 80, 97, 115, 115, 119, 111, 114, 100,
      58, 32, 39, 50, 51, 85, 104, 110, 82, 100, 77, 99, 119, 117, 122, 73, 47, 115,
      76, 72, 50, 114, 65, 79, 107, 111, 108, 72, 114, 65, 67, 108, 114, 85, 110, 66,
      54, 86, 66, 80, 56, 47, 51, 57, 52, 117, 49, 120, 77, 106, 118, 88, 88, 67, 99,
      114, 79, 104, 119, 43, 76, 77, 61, 39, 44>>

CommittedFiles ==
    [part_000 |-> part_000_Login, constants_ts |-> constants_encryptedPassword]

\* text contains the run of code units sub
Contains(text, sub) ==
    \E i \in 1..(Len(text) - Len(sub) + 1) : SubSeq(text, i, i + Len(sub) - 1) = sub

\* a committed file contains text
AtRest(text) == \E f \in DOMAIN CommittedFiles : Contains(CommittedFiles[f], text)

(* C19: no plaintext credential at rest: the operator password is in the   *)
(* repository only as an envelope: the envelope literal is committed, and  *)
(* no committed file contains the plaintext an invocation of the accessor  *)
(* returns.                                                                *)
C19_NoPlaintextAtRest ==
    /\ AtRest(StoredEnvelopeText)
    /\ Len(StoredEnvelopeText) = Len(cred.encryptedPassword)
    /\ \A i \in 1..Len(accesses) :
        (Returned(accesses[i].outcome) /\ accesses[i].outcome.value # <<>>)
            => ~AtRest(accesses[i].outcome.value)

----------------------------------------------------------------------------
\* the calls made so far whose locals the state holds: the latest
\* encryptPassword call, the one before it, the latest decryptPassword call
\* and the accessor's
CallsHeld ==
    {c \in {enc, prev, dec} : c.called} \cup {accesses[i] : i \in 1..Len(accesses)}

(* C20: key derivation is deterministic: the key material of every call is *)
(* 32 bytes, any two calls that resolved the same passphrase derived the   *)
(* same key material (an earlier and a later encryptPassword call, an      *)
(* encryptPassword call and the decryptPassword call after it), and the    *)
(* material is the digest under the fixed salt and iteration count.        *)
C20_DeterministicDerivation ==
    /\ \A c \in CallsHeld : Len(c.derivedKey) = 32
    /\ \A c, d \in CallsHeld : c.key = d.key => c.derivedKey = d.derivedKey
    /\ \A c \in CallsHeld : c.derivedKey = pbkdf2Sync(c.key, salt, 10000, 32)

\* a decryptPassword call that resolved the passphrase of the
\* encryptPassword call before it from another source (the environment
\* key against the key argument), re-derived its key and opened its envelope
C20_Witness ==
    /\ OpensStored
    /\ enc.key = dec.key /\ enc.encryptionKey # dec.encryptionKey
    /\ enc.key = WrongKey
    /\ enc.derivedKey = dec.derivedKey /\ Len(dec.derivedKey) = 32
    /\ enc.password # <<>> /\ dec.outcome = Return(enc.password)

----------------------------------------------------------------------------
(* C21: envelope length: for a plaintext whose UTF-8 encoding has n bytes  *)
(* the envelope encryptPassword returns decodes to exactly 32 + n bytes,   *)
(* the ciphertext being as long as the plaintext; the decoded length is at *)
(* least 32, and the ciphertext portion is empty exactly when the          *)
(* plaintext is empty.                                                     *)
C21_EnvelopeLength ==
    enc.called =>
        LET n == Len(Utf8Encode(enc.password))
            bytes == fromBase64(enc.result)
        IN /\ Len(bytes) = 32 + n
           /\ Len(fromBase64(enc.encrypted)) = n
           /\ Len(bytes) >= 32
           /\ (SubSeq(bytes, 33, Len(bytes)) = <<>>) <=> (enc.password = <<>>)

\* the two code units of U+1F600 sealed: four bytes of ciphertext after the
\* nonce and the tag
C21_Witness ==
    /\ enc.called
    /\ enc.password = <<55357, 56832>>
    /\ Len(fromBase64(enc.result)) = 36
    /\ Len(enc.iv) = 16 /\ Len(enc.authTag) = 16

----------------------------------------------------------------------------
(* Envelopes of another context: the nonce and ciphertext of an envelope   *)
(* encryptPassword made, with the tag a cipher computes under the same key *)
(* when setAAD is given other associated data, or none.                    *)

\* no associated data, 'playwright-tesu' (last byte changed), 'playwright-test2'
OtherAADs ==
    {<<>>,
     <<112, 108, 97, 121, 119, 114, 105, 103, 104, 116, 45, 116, 101, 115, 117>>,
     <<112, 108, 97, 121, 119, 114, 105, 103, 104, 116, 45, 116, 101, 115, 116, 50>>}

\* the envelope of the call e with its tag computed over aad
ForeignEnvelope(e, aad) ==
    LET ct == fromBase64(e.encrypted)
    IN toBase64(Combine(e.iv, getAuthTag(e.derivedKey, e.iv, aad, ct), ct))

\* decryptPassword given the latest envelope re-tagged over aad, with the
\* key argument the envelope was made with
DecryptForeign(aad) ==
    /\ enc.called
    /\ Decrypt(ForeignEnvelope(enc, aad), enc.encryptionKey)

NextContext ==
    \/ \E v \in EnvValues : SetEnv(v)
    \/ \E k \in ExplicitKeys, r \in randomBytes(16) : Encrypt(k, r)
    \/ DecryptSame
    \/ \E aad \in OtherAADs : DecryptForeign(aad)

SpecContext == InitCalls /\ [][NextContext]_vars

\* the latest decryptPassword call resolved the passphrase of the latest
\* encryptPassword call and was given its nonce and its ciphertext, with the
\* tag of these under the same key over associated data aad
RetaggedOver(aad) ==
    /\ enc.called /\ dec.called
    /\ dec.key = enc.key
    /\ dec.iv = enc.iv
    /\ dec.encrypted = fromBase64(enc.encrypted)
    /\ dec.authTag = GcmTag(pbkdf2Sync(enc.key, salt, 10000, 32), enc.iv, aad,
                            fromBase64(enc.encrypted))

(* C22: context binding: encryptPassword and decryptPassword bind the same *)
(* fixed associated-data literal into the tag: the envelope tagged over    *)
(* that literal is opened, and an envelope with the same key, nonce and    *)
(* ciphertext whose tag was computed over any other associated data is     *)
(* rejected by decryptPassword with the authentication error.              *)
C22_ContextBinding ==
    /\ cipherAAD = FixedAAD /\ decipherAAD = FixedAAD
    /\ RetaggedOver(FixedAAD) => dec.outcome = Return(Utf8Decode(Utf8Encode(enc.password)))
    /\ \A aad \in OtherAADs : RetaggedOver(aad) => IntegrityError(dec.outcome)

\* the envelope re-tagged over no associated data, given with the key it
\* was sealed under, rejected
C22_Witness ==
    /\ RetaggedOver(<<>>)
    /\ dec.encryptedPassword # enc.result
    /\ dec.encryptionKey = TestKey
    /\ IntegrityError(dec.outcome)

----------------------------------------------------------------------------
(* One caller at a time: an invocation of encryptPassword or               *)
(* decryptPassword taken step by step, and getPassword calls.              *)

Caller == "a"

NextSingleShot ==
    \/ \E v \in EnvValues : SetEnv(v)
    \/ \E op \in {"encrypt", "decrypt"}, k \in {Undefined, TestKey} : Invoke(Caller, op, k)
    \/ ResolveStep(Caller)
    \/ \E r \in randomBytes(16) : EncryptBody(Caller, r)
    \/ DecryptBody(Caller)
    \/ Retire(Caller)
    \/ GetPassword

SpecSingleShot == InitCalls /\ [][NextSingleShot]_vars

\* an outcome is one thing: a value and no error, or an error and no value
OneOutcome(o) ==
    IF o.threw THEN o.value = Undefined /\ o.error # ""
    ELSE o.value # Undefined /\ o.error = ""

\* the invocation in hand, once ended, has finalised the cipher once and has
\* the one outcome of its arguments and key; no invocation finalises twice;
\* every getPassword call so far gave the outcome of decryptPassword on the
\* stored envelope under the passphrase its environment resolved
EndedOnce ==
    /\ inflight[Caller].finals <= 1
    /\ inflight[Caller].pc = "done" =>
            /\ inflight[Caller].finals = 1
            /\ OneOutcome(inflight[Caller].outcome)
            /\ inflight[Caller].outcome = AloneOutcome(Caller)
    /\ \A j \in 1..Len(accesses) :
            /\ OneOutcome(accesses[j].outcome)
            /\ accesses[j].outcome =
                 OutcomeFor(cred.encryptedPassword,
                            PassphraseWhenNonEmpty(Undefined, accesses[j].env))

\* how far the invocation in hand has come
Rank(f) == CASE f.pc = "idle" -> 0 [] f.pc = "resolve" -> 1
             [] f.pc = "body" -> 2 [] f.pc = "done" -> 3

\* a started invocation that has not ended has its next step to take: the
\* resolution of its key, or the body of the function it is in
StepAhead ==
    \/ inflight[Caller].pc \in {"idle", "done"}
    \/ inflight[Caller].pc = "resolve"
    \/ /\ inflight[Caller].pc = "body"
       /\ inflight[Caller].op \in {"encrypt", "decrypt"}
       /\ inflight[Caller].key \notin {Undefined, <<>>}
       /\ randomBytes(16) # {}

\* a step of the invocation in hand takes it one place on (started,
\* resolved, ended) or, ended, hands its outcome over; none repeats a place
Advances ==
    inflight'[Caller] # inflight[Caller] =>
        \/ Rank(inflight'[Caller]) = Rank(inflight[Caller]) + 1
        \/ inflight[Caller].pc = "done" /\ inflight'[Caller] = Idle

(* C23: single-shot termination: every invocation of encryptPassword or    *)
(* decryptPassword comes to its end in two steps from its start, each step *)
(* taking it one place on and none repeated, with exactly one outcome, a   *)
(* returned value or an error raised to its caller; the cipher is          *)
(* finalised once per invocation, a failed tag verification included (no   *)
(* retry); and getPassword gives its caller the outcome of decryptPassword *)
(* unchanged, the error included.                                          *)
C23_SingleShot == [](EndedOnce /\ StepAhead) /\ [][Advances]_vars

\* a decryptPassword invocation ended by the authentication error after one
\* finalisation, and a getPassword call that gave its caller the same error
C23_Witness ==
    /\ inflight[Caller].pc = "done" /\ inflight[Caller].op = "decrypt"
    /\ inflight[Caller].finals = 1
    /\ IntegrityError(inflight[Caller].outcome)
    /\ accesses # <<>>
    /\ accesses[Len(accesses)].outcome = inflight[Caller].outcome

----------------------------------------------------------------------------
(* From the script to the accessor: the script is run on a password, the   *)
(* envelope it prints is pasted into constants.ts in place of the stored   *)
(* one ("Copy this encrypted password to your constants.ts file"), and     *)
(* getPassword is called, the environment key changing in between.         *)

\* 'a', 'a' and e-acute, U+1F600
AgreedPasswords == {<<97>>, <<97, 233>>, <<55357, 56832>>}

\* the envelope the script printed replaces both literals of constants.ts
Paste ==
    /\ cli.ran /\ cli.exitCode = 0
    /\ cred.encryptedPassword # cli.copy
    /\ cred' = [cred EXCEPT !.encryptedPassword = cli.copy,
                            !.getPasswordEnvelope = cli.copy]
    /\ UNCHANGED <<password, processEnv, enc, dec, prev, accesses, form, cli, inflight, tooling>>

\* getPassword called once the printed envelope is in place
AccessPasted ==
    /\ cli.ran /\ cred.encryptedPassword = cli.copy
    /\ GetPassword

NextAgreement ==
    \/ \E v \in EnvValues : SetEnv(v)
    \/ \E arg \in AgreedPasswords, r \in randomBytes(16) : RunScript(arg, r)
    \/ Paste
    \/ AccessPasted

SpecAgreement == InitScript /\ [][NextAgreement]_vars

\* the script has printed an envelope
Printed == cli.ran /\ cli.exitCode = 0 /\ cli.copy # Undefined

(* C24: end-to-end key agreement.  As claimed: generateEncryptedPassword,  *)
(* and so the script, always encrypts under the environment key if that is *)
(* set, else under the default, never under an explicit key; the envelope  *)
(* it produced while the environment resolved to passphrase K is decrypted *)
(* by an accessor without explicit key to the original plaintext exactly   *)
(* when the environment resolves to K at access time, and otherwise the    *)
(* access fails with an error.                                             *)
C24_AgreementWhenSet ==
    /\ Printed =>
        OutcomeFor(cli.copy, PassphraseWhenPresent(Undefined, cli.env)) = Return(cli.arg)
    /\ \A j \in 1..Len(accesses) :
        LET sealedUnder == PassphraseWhenPresent(Undefined, cli.env)
            openedUnder == PassphraseWhenPresent(Undefined, accesses[j].env)
        IN /\ accesses[j].encryptedPassword = cli.copy
           /\ accesses[j].key = openedUnder
           /\ (openedUnder = sealedUnder) <=> (accesses[j].outcome = Return(cli.arg))
           /\ (openedUnder # sealedUnder) => accesses[j].outcome.threw

(* C24 as amended: generateEncryptedPassword, and so the script, always    *)
(* encrypts under the environment key if that is set and non-empty, else   *)
(* under the default (an environment key set to the empty string counts as *)
(* not set), never under an explicit key; the envelope it produced for a   *)
(* password without unpaired surrogate while the environment resolved to   *)
(* passphrase K is decrypted by an accessor without explicit key to the    *)
(* original plaintext exactly when the environment resolves to K at access *)
(* time, and otherwise the access fails with the authentication error.     *)
C24_Agreement ==
    /\ Printed =>
        OutcomeFor(cli.copy, PassphraseWhenNonEmpty(Undefined, cli.env)) = Return(cli.arg)
    /\ \A j \in 1..Len(accesses) :
        LET sealedUnder == PassphraseWhenNonEmpty(Undefined, cli.env)
            openedUnder == PassphraseWhenNonEmpty(Undefined, accesses[j].env)
        IN /\ accesses[j].encryptedPassword = cli.copy
           /\ accesses[j].key = openedUnder
           /\ (openedUnder = sealedUnder) <=> (accesses[j].outcome = Return(cli.arg))
           /\ (openedUnder # sealedUnder) => IntegrityError(accesses[j].outcome)

\* an envelope printed under 'wrong-key', pasted, opened after the key was
\* unset (the access fails) and again after it was set back (the password)
C24_Witness ==
    /\ Printed /\ cli.env = WrongKey
    /\ Len(accesses) = 2
    /\ accesses[1].env = Undefined /\ IntegrityError(accesses[1].outcome)
    /\ accesses[2].env = WrongKey /\ accesses[2].outcome = Return(cli.arg)

----------------------------------------------------------------------------
(* The script and the library side by side: runs of the script on any      *)
(* argument, and encryptPassword called directly on the empty password.    *)

NextCli ==
    \/ \E v \in EnvValues : SetEnv(v)
    \/ \E arg \in Arguments, r \in randomBytes(16) : RunScript(arg, r)
    \/ \E r \in randomBytes(16) : Encrypt(Undefined, r)

SpecCli == InitScript /\ [][NextCli]_vars

\* what the script run without argument leaves behind
UsageExit(arg, env) ==
    [ran |-> TRUE, arg |-> arg, env |-> env,
     stderr |-> "Please provide a password to encrypt",
     log |-> <<>>, copy |-> Undefined, exitCode |-> 1]

(* C25: the script treats an empty-string argument exactly like a missing  *)
(* one: it prints the usage error and exits with code 1 without calling    *)
(* generateEncryptedPassword (nothing logged, no envelope printed); so the *)
(* empty password, which encryptPassword seals into an envelope of 32      *)
(* bytes, is never sealed by the script: every envelope the script prints  *)
(* carries ciphertext.                                                     *)
C25_EmptyArgumentRefused ==
    /\ (cli.ran /\ cli.arg \in {Undefined, <<>>}) => cli = UsageExit(cli.arg, cli.env)
    /\ Printed =>
        /\ cli.arg \notin {Undefined, <<>>}
        /\ Len(fromBase64(cli.copy)) > 32
        /\ cli.log # <<>>
    /\ (enc.called /\ enc.password = <<>>) =>
        /\ Len(fromBase64(enc.result)) = 32
        /\ OutcomeFor(enc.result, enc.key) = Return(<<>>)

\* the script run on the empty string, refused, and the empty password
\* sealed by encryptPassword in the same environment
C25_Witness ==
    /\ cli.ran /\ cli.arg = <<>> /\ cli.exitCode = 1 /\ cli.log = <<>>
    /\ enc.called /\ enc.password = <<>> /\ enc.env = cli.env
    /\ Len(fromBase64(enc.result)) = 32

----------------------------------------------------------------------------
(* The cucumber run: one worker (cucumber.js: parallel: 1) takes the       *)
(* scenarios in order.  For each it makes a World, runs Before, then the   *)
(* steps until one fails (the rest are skipped, as they all are when       *)
(* Before failed), then After; BeforeAll comes before the first scenario   *)
(* and AfterAll after the last.                                            *)

RunBeforeAll ==
    /\ run.pc = "start"
    /\ run' = [BeforeAllHook(run) EXCEPT !.pc = "before", !.scenario = 1]
    /\ UNCHANGED <<password, processEnv, enc, dec, prev, consumers, inflight, analysis>>

RunBefore(contextMade, pageMade) ==
    /\ run.pc = "before"
    /\ run' = [BeforeHook([run EXCEPT !.failed = FALSE], contextMade, pageMade)
                 EXCEPT !.pc = "steps", !.step = 1]
    /\ UNCHANGED <<password, processEnv, enc, dec, prev, consumers, inflight, analysis>>

RunStep(passed) ==
    /\ run.pc = "steps" /\ ~run.failed /\ run.step <= ScenarioSteps[run.scenario]
    /\ run' = IF run.step = 1 THEN GivenStep(run, passed) ELSE LaterStep(run, passed)
    /\ UNCHANGED <<password, processEnv, enc, dec, prev, consumers, inflight, analysis>>

RunAfter ==
    /\ run.pc = "steps"
    /\ run.failed \/ run.step > ScenarioSteps[run.scenario]
    /\ run' = IF run.scenario < Len(ScenarioSteps)
              THEN [AfterHook(run) EXCEPT !.pc = "before", !.scenario = @ + 1]
              ELSE [AfterHook(run) EXCEPT !.pc = "finish"]
    /\ UNCHANGED <<password, processEnv, enc, dec, prev, consumers, inflight, analysis>>

RunAfterAll ==
    /\ run.pc = "finish"
    /\ run' = [AfterAllHook(run) EXCEPT !.pc = "end"]
    /\ UNCHANGED <<password, processEnv, enc, dec, prev, consumers, inflight, analysis>>

NextHooks ==
    \/ RunBeforeAll
    \/ \E contextMade, pageMade \in BOOLEAN : RunBefore(contextMade, pageMade)
    \/ \E passed \in BOOLEAN : RunStep(passed)
    \/ RunAfter
    \/ RunAfterAll

SpecHooks == InitCalls /\ [][NextHooks]_vars

(* C26: scenario isolation: every step of a scenario that is run works on  *)
(* the page, in the open context, that the scenario's own Before hook      *)
(* made, through this.page in the first step and through the helpers,      *)
(* bound to that page by the first step, after it; no step uses a context, *)
(* page or helper of an earlier scenario.                                  *)
C26_ScenarioIsolation ==
    /\ \A u \in run.uses :
        /\ u.page # 0
        /\ u.page = run.made[u.scenario]
        /\ u.live
        /\ \A n \in 1..Len(ScenarioSteps) : n # u.scenario => run.made[n] # u.page
    /\ (run.pc = "steps" /\ run.step > 1) =>
        /\ run.helpers = run.made[run.scenario]
        /\ run.world.page = run.made[run.scenario]

\* the third scenario at its last step, after a first scenario that failed
\* and a second whose Before hook failed: its steps used its own page only
C26_Witness ==
    /\ run.pc = "steps" /\ run.scenario = 3 /\ run.step > ScenarioSteps[3] /\ ~run.failed
    /\ run.made[1] = 1 /\ run.made[2] = 0 /\ run.made[3] = 2
    /\ run.helpers = 2
    /\ \E u \in run.uses : u.scenario = 1 /\ u.page = 1
    /\ \E u \in run.uses : u.scenario = 3 /\ u.page = 2

----------------------------------------------------------------------------
(* C27: hook lifecycle and cleanup: the browser is launched exactly once,  *)
(* before the first scenario; for every scenario, passed or failed, the    *)
(* context its Before hook made is closed by After before the Before hook  *)
(* of the next scenario runs, so that at most one context is open at any   *)
(* time; and after AfterAll no context and no browser is open.             *)
C27_HookLifecycle ==
    /\ run.pc = "start" => (run.launches = 0 /\ run.scenario = 0 /\ run.created = 0)
    /\ run.pc # "start" => run.launches = 1
    /\ run.pc \in {"before", "steps", "finish"} => run.browserOpen
    /\ Cardinality(run.open) <= 1
    /\ run.open \subseteq {run.context}
    /\ run.pc \in {"before", "finish"} => run.open = {}
    /\ run.pc = "end" => (run.open = {} /\ ~run.browserOpen)

\* the run at its end after three contexts were made and the last scenario
\* failed: nothing is left open
C27_Witness ==
    /\ run.pc = "end" /\ run.failed
    /\ run.launches = 1 /\ run.created = 3
    /\ run.open = {} /\ ~run.browserOpen

----------------------------------------------------------------------------
(* Runs of the token counters over a project.                              *)

\* one analysis of a project whose files do not change while it runs
InitAnalysis ==
    /\ password = <<>>
    /\ processEnv = Undefined
    /\ enc = NoEnc
    /\ dec = NoDec
    /\ prev = NoEnc
    /\ cred = CREDENTIALS(Undefined)
    /\ accesses = <<>>
    /\ form = NoForm
    /\ cli = NoCli
    /\ inflight = [i \in Invocations |-> Idle]
    /\ run = NotStarted
    /\ \E fs \in FileSystems :
          \/ \E includeOutput \in BOOLEAN : analysis = StartCounter(fs, includeOutput)
          \/ analysis = StartDevelopment(fs)

Analyzing(tool, phase) == analysis.tool = tool /\ analysis.phase = phase

AnalysisBecomes(a) ==
    /\ analysis' = a
    /\ UNCHANGED <<password, processEnv, enc, dec, prev, consumers, inflight, run>>

RunCounterGlob ==
    /\ Analyzing("counter", "patterns")
    /\ analysis.todo = <<>> /\ analysis.patterns # <<>>
    /\ AnalysisBecomes(CounterGlob(analysis))

RunCounterFile ==
    /\ Analyzing("counter", "patterns")
    /\ analysis.todo # <<>>
    /\ AnalysisBecomes(CounterFile(analysis))

RunCounterReturn ==
    /\ Analyzing("counter", "patterns")
    /\ analysis.todo = <<>> /\ analysis.patterns = <<>>
    /\ AnalysisBecomes(CounterReturn(analysis))

RunDevelopmentInput ==
    /\ Analyzing("development", "input")
    /\ analysis.todo # <<>>
    /\ AnalysisBecomes(DevelopmentInput(analysis))

RunDevelopmentGlobOutput ==
    /\ Analyzing("development", "input")
    /\ analysis.todo = <<>>
    /\ AnalysisBecomes(DevelopmentGlobOutput(analysis))

RunDevelopmentOutput ==
    /\ Analyzing("development", "output")
    /\ analysis.todo # <<>>
    /\ AnalysisBecomes(DevelopmentOutput(analysis))

RunDevelopmentCombine ==
    /\ Analyzing("development", "output")
    /\ analysis.todo = <<>>
    /\ AnalysisBecomes(DevelopmentCombine(analysis))

NextAnalysis ==
    \/ RunCounterGlob
    \/ RunCounterFile
    \/ RunCounterReturn
    \/ RunDevelopmentInput
    \/ RunDevelopmentGlobOutput
    \/ RunDevelopmentOutput
    \/ RunDevelopmentCombine

SpecAnalysis == InitAnalysis /\ [][NextAnalysis]_vars

----------------------------------------------------------------------------
\* the files a breakdown lists
Listed(entries) == {entries[k].file : k \in DOMAIN entries}

(* C28: INPUT/OUTPUT separation in the development analysis: every         *)
(* analyzed file is classified as INPUT or as OUTPUT and never as both, so *)
(* that no file adds to both the input and the output totals and the       *)
(* combined file count is the number of distinct files analyzed.           *)
C28_InputOutputSeparation ==
    analysis.tool = "development" =>
        LET inputs  == Listed(analysis.stats.input.files)
            outputs == Listed(analysis.stats.output.files)
        IN  /\ inputs \cap outputs = {}
            /\ analysis.phase = "done" =>
                   analysis.stats.combined.fileCount = Cardinality(inputs \cup outputs)

----------------------------------------------------------------------------
\* how often a file is listed
Times(files, f) == Cardinality({k \in DOMAIN files : files[k] = f})

\* a section's count and totals are those of its entries, every entry is
\* that of a file that can be read, with the figures of its text
Tallied(fileCount, totalTokens, totalCharacters, totalLines, entries) ==
    /\ fileCount = Len(entries)
    /\ totalTokens = SumOver(AsSeq([k \in DOMAIN entries |-> entries[k].tokens]), 1, Len(entries))
    /\ totalCharacters = SumOver(AsSeq([k \in DOMAIN entries |-> entries[k].chars]), 1, Len(entries))
    /\ totalLines = SumOver(AsSeq([k \in DOMAIN entries |-> entries[k].lines]), 1, Len(entries))
    /\ \A k \in DOMAIN entries :
          /\ analysis.fs[entries[k].file] = "file"
          /\ entries[k].chars = Len(Texts[entries[k].file])
          /\ entries[k].lines = lineCount(Texts[entries[k].file])
          /\ entries[k].tokens = estimateTokens(Texts[entries[k].file])

\* the number of times the finished analysis came to file f: once for each
\* pattern of the counter that matches it, once for each list of the
\* development counter it is in
Visits(f) ==
    IF analysis.fs[f] = "absent" THEN 0
    ELSE IF analysis.tool = "counter"
    THEN LET patterns == IF analysis.includeOutput
                         THEN inputPatterns \o outputPatterns ELSE inputPatterns
         IN  IF AnyMatches(excludePatterns, Paths[f]) THEN 0
             ELSE Cardinality({k \in DOMAIN patterns : Matches(patterns[k], Paths[f])})
    ELSE (IF AnyMatches(inputPatterns, Paths[f]) /\ ~AnyMatches(excludePatterns, Paths[f])
          THEN 1 ELSE 0)
         + (IF AnyMatches(developmentOutputPatterns, Paths[f]) THEN 1 ELSE 0)

(* C29: the token analysis skips unreadable files: a file whose read fails *)
(* adds nothing to fileCount, totalTokens, totalCharacters, totalLines or  *)
(* the breakdown, the error is reported, and the remaining files are still *)
(* analyzed; in every state fileCount is the number of breakdown entries   *)
(* and each total is the sum over those entries.                           *)
C29_UnreadableFilesSkipped ==
    analysis.phase # "idle" =>
        LET entries == IF analysis.tool = "counter"
                       THEN analysis.stats.fileBreakdown
                       ELSE analysis.stats.input.files \o analysis.stats.output.files
            listed == AsSeq([k \in DOMAIN entries |-> entries[k].file])
        IN  /\ IF analysis.tool = "counter"
               THEN Tallied(analysis.stats.fileCount, analysis.stats.totalTokens,
                            analysis.stats.totalCharacters, analysis.stats.totalLines,
                            analysis.stats.fileBreakdown)
               ELSE /\ Tallied(analysis.stats.input.fileCount,
                               analysis.stats.input.totalTokens,
                               analysis.stats.input.totalCharacters,
                               analysis.stats.input.totalLines,
                               analysis.stats.input.files)
                    /\ Tallied(analysis.stats.output.fileCount,
                               analysis.stats.output.totalTokens,
                               analysis.stats.output.totalCharacters,
                               analysis.stats.output.totalLines,
                               analysis.stats.output.files)
            /\ \A k \in DOMAIN analysis.errors :
                  analysis.fs[analysis.errors[k]] = "unreadable"
            /\ analysis.phase = "done" =>
                  \A f \in DOMAIN Paths :
                     /\ Times(listed, f) =
                            (IF analysis.fs[f] = "file" THEN Visits(f) ELSE 0)
                     /\ Times(analysis.errors, f) =
                            (IF analysis.fs[f] = "unreadable" THEN Visits(f) ELSE 0)

\* a finished count in which the read of one .ts file failed and a .ts file
\* that came after it is in the breakdown
C29_Witness ==
    /\ Analyzing("counter", "done")
    /\ analysis.errors # <<>> /\ analysis.stats.fileBreakdown # <<>>
    /\ Paths[analysis.errors[1]].ext = "ts"
    /\ Paths[analysis.stats.fileBreakdown[1].file].ext = "ts"
    /\ analysis.stats.fileBreakdown[1].file > analysis.errors[1]
    /\ analysis.stats.fileCount = Len(analysis.stats.fileBreakdown)

====
